---- MODULE Spec2Model ----
(***************************************************************************)
(* A model of fsfuse: the translators of util.go (toErrno, toFileMode,     *)
(* toFuseMode, statToAttr) and the open-file adapter of filehandle.go      *)
(* (fileHandle.Read / Write / Flush / Release).                            *)
(*                                                                         *)
(* The pure translators are checked under specifications that draw an      *)
(* input in Init and apply the function in an action (SpecErrno, SpecMode, *)
(* SpecAttr).  The file handle is a state machine (Spec): every backend    *)
(* call of a handler is one step, the backend's answer to it is a          *)
(* nondeterministic choice.                                                *)
(***************************************************************************)
EXTENDS Integers, Sequences, FiniteSets, TLC

VARIABLES
    input,      \* the argument of the pure function under check
    mid,        \* intermediate value of a two-step conversion
    output,     \* the value the function returned
    upc,        \* "ready" -> ("mid" ->) "done"
    file,       \* fh.f: the backend file of the handle and its capabilities
    offset,     \* fh.offset: the tracked offset
    mu,         \* fh.mu: 0 when unlocked, else the caller that holds it
    closed,     \* fh.f.Close() has been called
    pc,         \* per caller: where it is in its handler
    call        \* per caller: its current (or last) call

utilVars == <<input, mid, output, upc>>

fhVars == <<file, offset, mu, closed, pc, call>>

vars == <<input, mid, output, upc, file, offset, mu, closed, pc, call>>

----------------------------------------------------------------------------
(***************************************************************************)
(* Errors.  A Go error value is modelled by the sequence of errors that    *)
(* errors.As / errors.Is visit when they unwrap it (the error itself       *)
(* first, then what it wraps, depth first).  NilErr is the nil error.      *)
(***************************************************************************)

\* syscall.Errno values (linux)
EPERM   == 1
ENOENT  == 2
EIO     == 5
EACCES  == 13
EEXIST  == 17
EXDEV   == 18
ENOTDIR == 20
EINVAL  == 22
ENOSYS  == 38
ENOTSUP == 95

Errno(c)       == [kind |-> "Errno", code |-> c]
ErrNotExist    == [kind |-> "ErrNotExist", code |-> 0]
ErrPermission  == [kind |-> "ErrPermission", code |-> 0]
ErrInvalid     == [kind |-> "ErrInvalid", code |-> 0]
ErrExist       == [kind |-> "ErrExist", code |-> 0]
ErrUnsupported == [kind |-> "ErrUnsupported", code |-> 0]
EOF            == [kind |-> "EOF", code |-> 0]
\* errors.New("..."): matches nothing
Generic        == [kind |-> "Generic", code |-> 0]

NilErr == <<>>

\* syscall.Errno.Is(target): the sentinels an errno value answers to
ErrnoIs(c, target) ==
    CASE target = ErrPermission  -> c \in {EACCES, EPERM}
      [] target = ErrExist       -> c = EEXIST
      [] target = ErrNotExist    -> c = ENOENT
      [] target = ErrUnsupported -> c \in {ENOSYS, ENOTSUP}
      [] OTHER                   -> FALSE

\* errors.Is(err, target)
ErrorsIs(err, target) ==
    \E i \in 1..Len(err) :
        \/ err[i] = target
        \/ err[i].kind = "Errno" /\ ErrnoIs(err[i].code, target)

\* errors.As(err, &errno): the indexes of the syscall.Errno values in the chain
ErrnoAt(err) == {i \in 1..Len(err) : err[i].kind = "Errno"}

Min(S) == CHOOSE x \in S : \A y \in S : x <= y

toErrno_PatternFirst(err) ==
    IF err = NilErr THEN 0
    ELSE IF ErrorsIs(err, ErrNotExist) THEN ENOENT
    ELSE IF ErrorsIs(err, ErrPermission) THEN EPERM
    ELSE IF ErrorsIs(err, ErrInvalid) THEN EINVAL
    ELSE IF ErrorsIs(err, ErrExist) THEN EEXIST
    ELSE IF ErrorsIs(err, ErrUnsupported) THEN ENOSYS
    ELSE IF ErrnoAt(err) # {} THEN err[Min(ErrnoAt(err))].code
    ELSE EIO

toErrno(err) ==
    IF err = NilErr THEN 0
    ELSE IF ErrnoAt(err) # {} THEN err[Min(ErrnoAt(err))].code
    ELSE IF ErrorsIs(err, ErrNotExist) THEN ENOENT
    ELSE IF ErrorsIs(err, ErrPermission) THEN EPERM
    ELSE IF ErrorsIs(err, ErrInvalid) THEN EINVAL
    ELSE IF ErrorsIs(err, ErrExist) THEN EEXIST
    ELSE IF ErrorsIs(err, ErrUnsupported) THEN ENOSYS
    ELSE EIO

----------------------------------------------------------------------------
(***************************************************************************)
(* SpecErrno: toErrno applied to every error chain of up to MaxChain       *)
(* links.                                                                  *)
(***************************************************************************)
MaxChain == 2

ErrAtoms ==
    {Errno(c) : c \in {0, EPERM, ENOENT, EACCES, EEXIST, ENOTDIR, ENOSYS}}
    \cup {ErrNotExist, ErrPermission, ErrInvalid, ErrExist, ErrUnsupported,
          EOF, Generic}

ErrChains == UNION {[1..n -> ErrAtoms] : n \in 0..MaxChain}

\* the callers of the file handle's methods
Callers == {1, 2}

NoCall == [op |-> "none"]

\* no file handle exists
FhNone ==
    /\ file = [open |-> FALSE, readerAt |-> FALSE, writerAt |-> FALSE,
               seeker |-> FALSE]
    /\ offset = 0
    /\ mu = 0
    /\ closed = FALSE
    /\ pc = [p \in Callers |-> "idle"]
    /\ call = [p \in Callers |-> NoCall]

InitErrno ==
    /\ FhNone
    /\ input \in ErrChains
    /\ mid = <<>>
    /\ output = 0
    /\ upc = "ready"

CallToErrno ==
    /\ upc = "ready"
    /\ output' = toErrno(input)
    /\ upc' = "done"
    /\ UNCHANGED <<input, mid>>
    /\ UNCHANGED fhVars

NextErrno == CallToErrno

SpecErrno == InitErrno /\ [][NextErrno]_vars

----------------------------------------------------------------------------
(***************************************************************************)
(* Mode words.  A mode (the uint32 of the protocol, the fs.FileMode of the *)
(* host) is modelled by the set of the positions of its 1 bits, so that    *)
(* & is \cap and | is \cup, bit for bit; fs.ModeDir is bit 31.             *)
(***************************************************************************)
Pow2(i) == 2 ^ i

\* the bits of the number n, n < 2^31
Word(n) == {i \in 0..30 : (n \div Pow2(i)) % 2 = 1}

\* 0777
PermMask == Word(511)

\* syscall.S_IF*, S_IS* (octal 0170000, 040000, 020000, 060000, 0100000,
\* 010000, 0120000, 0140000, 04000, 02000, 01000)
S_IFMT   == Word(61440)
S_IFDIR  == Word(16384)
S_IFCHR  == Word(8192)
S_IFBLK  == Word(24576)
S_IFREG  == Word(32768)
S_IFIFO  == Word(4096)
S_IFLNK  == Word(40960)
S_IFSOCK == Word(49152)
S_ISUID  == Word(2048)
S_ISGID  == Word(1024)
S_ISVTX  == Word(512)

\* io/fs mode bits: ModeDir = 1<<31, ModeSymlink = 1<<27, ...
ModeDir        == {31}
ModeSymlink    == {27}
ModeDevice     == {26}
ModeNamedPipe  == {25}
ModeSocket     == {24}
ModeSetuid     == {23}
ModeSetgid     == {22}
ModeCharDevice == {21}
ModeSticky     == {20}

toFileMode_NoSticky(mode) ==
    LET t == mode \cap S_IFMT
        ty == CASE t = S_IFDIR  -> ModeDir
                [] t = S_IFCHR  -> ModeDevice \cup ModeCharDevice
                [] t = S_IFBLK  -> ModeDevice
                [] t = S_IFREG  -> {}
                [] t = S_IFIFO  -> ModeNamedPipe
                [] t = S_IFLNK  -> ModeSymlink
                [] t = S_IFSOCK -> ModeSocket
                [] OTHER        -> {}
    IN  (mode \cap PermMask) \cup ty
        \cup (IF mode \cap S_ISUID # {} THEN ModeSetuid ELSE {})
        \cup (IF mode \cap S_ISGID # {} THEN ModeSetgid ELSE {})

toFileMode(mode) ==
    LET t == mode \cap S_IFMT
        ty == CASE t = S_IFDIR  -> ModeDir
                [] t = S_IFCHR  -> ModeDevice \cup ModeCharDevice
                [] t = S_IFBLK  -> ModeDevice
                [] t = S_IFREG  -> {}
                [] t = S_IFIFO  -> ModeNamedPipe
                [] t = S_IFLNK  -> ModeSymlink
                [] t = S_IFSOCK -> ModeSocket
                [] OTHER        -> {}
    IN  (mode \cap PermMask) \cup ty
        \cup (IF mode \cap S_ISUID # {} THEN ModeSetuid ELSE {})
        \cup (IF mode \cap S_ISGID # {} THEN ModeSetgid ELSE {})
        \cup (IF mode \cap S_ISVTX # {} THEN ModeSticky ELSE {})

toFuseMode_DeviceIsBlock(mode) ==
    LET ty == IF mode \cap ModeDir # {} THEN S_IFDIR
              ELSE IF mode \cap ModeSymlink # {} THEN S_IFLNK
              ELSE IF mode \cap ModeNamedPipe # {} THEN S_IFIFO
              ELSE IF mode \cap ModeSocket # {} THEN S_IFSOCK
              ELSE IF mode \cap ModeDevice # {} THEN S_IFBLK
              ELSE S_IFREG
    IN  (mode \cap PermMask) \cup ty
        \cup (IF mode \cap ModeSetuid # {} THEN S_ISUID ELSE {})
        \cup (IF mode \cap ModeSetgid # {} THEN S_ISGID ELSE {})
        \cup (IF mode \cap ModeSticky # {} THEN S_ISVTX ELSE {})

toFuseMode(mode) ==
    LET ty == IF mode \cap ModeDir # {} THEN S_IFDIR
              ELSE IF mode \cap ModeSymlink # {} THEN S_IFLNK
              ELSE IF mode \cap ModeNamedPipe # {} THEN S_IFIFO
              ELSE IF mode \cap ModeSocket # {} THEN S_IFSOCK
              ELSE IF mode \cap ModeDevice # {} THEN
                       IF mode \cap ModeCharDevice # {} THEN S_IFCHR
                       ELSE S_IFBLK
              ELSE S_IFREG
    IN  (mode \cap PermMask) \cup ty
        \cup (IF mode \cap ModeSetuid # {} THEN S_ISUID ELSE {})
        \cup (IF mode \cap ModeSetgid # {} THEN S_ISGID ELSE {})
        \cup (IF mode \cap ModeSticky # {} THEN S_ISVTX ELSE {})

----------------------------------------------------------------------------
(***************************************************************************)
(* SpecMode: a mode word of either encoding is converted to the other      *)
(* encoding and back.                                                      *)
(***************************************************************************)
FuseTypes == {S_IFDIR, S_IFCHR, S_IFBLK, S_IFREG, S_IFIFO, S_IFLNK, S_IFSOCK}

FileTypes == {ModeDir, ModeDevice \cup ModeCharDevice, ModeDevice, {},
              ModeNamedPipe, ModeSymlink, ModeSocket}

UnionAll(S) == UNION S

\* the protocol words of the 7 types, plus words that carry no type bits
FuseWords ==
    {t \cup UnionAll(sp) \cup p :
        t \in FuseTypes \cup {{}},
        sp \in SUBSET {S_ISUID, S_ISGID, S_ISVTX},
        p \in SUBSET PermMask}

\* the host modes of the 7 types, plus a ModeCharDevice without ModeDevice
FileModes ==
    {t \cup UnionAll(sp) \cup p :
        t \in FileTypes \cup {ModeCharDevice},
        sp \in SUBSET {ModeSetuid, ModeSetgid, ModeSticky},
        p \in SUBSET PermMask}

InitMode ==
    /\ FhNone
    /\ input \in ({[enc |-> "fuse", m |-> w] : w \in FuseWords}
                  \cup {[enc |-> "file", m |-> w] : w \in FileModes})
    /\ mid = {}
    /\ output = {}
    /\ upc = "ready"

CallToFileMode ==
    \/ /\ upc = "ready" /\ input.enc = "fuse"
       /\ mid' = toFileMode(input.m)
       /\ upc' = "mid"
       /\ UNCHANGED <<input, output>>
       /\ UNCHANGED fhVars
    \/ /\ upc = "mid" /\ input.enc = "file"
       /\ output' = toFileMode(mid)
       /\ upc' = "done"
       /\ UNCHANGED <<input, mid>>
       /\ UNCHANGED fhVars
    /\ UNCHANGED fhVars

CallToFuseMode ==
    \/ /\ upc = "ready" /\ input.enc = "file"
       /\ mid' = toFuseMode(input.m)
       /\ upc' = "mid"
       /\ UNCHANGED <<input, output>>
       /\ UNCHANGED fhVars
    \/ /\ upc = "mid" /\ input.enc = "fuse"
       /\ output' = toFuseMode(mid)
       /\ upc' = "done"
       /\ UNCHANGED <<input, mid>>
       /\ UNCHANGED fhVars
    /\ UNCHANGED fhVars

NextMode == CallToFileMode \/ CallToFuseMode

SpecMode == InitMode /\ [][NextMode]_vars

----------------------------------------------------------------------------
(***************************************************************************)
(* Attribute fill (statToAttr).                                            *)
(*                                                                         *)
(* A string is a sequence of one-character strings.  A uint32 id (Uid,     *)
(* Gid) is the set of the positions of its 1 bits, as a mode word is, so   *)
(* that the conversion uint32(int) keeps its width.  The other numeric     *)
(* fields are drawn small and non-negative, where the conversions of the   *)
(* code are the identity.                                                  *)
(***************************************************************************)
DigitChars == <<"0", "1", "2", "3", "4", "5", "6", "7", "8", "9">>

IsDigit(c) == \E i \in 1..10 : DigitChars[i] = c

DigitVal(c) == (CHOOSE i \in 1..10 : DigitChars[i] = c) - 1

\* An int that strconv.Atoi returns is [neg, mag]: its sign and its
\* magnitude, the magnitude as [hi, lo, wide]: its low 32 bits in two 16-bit
\* limbs, and whether it reaches 2^32 (it is wider than a uint32).
Limb == 2 ^ 16

RECURSIVE DecimalValue(_)
DecimalValue(ds) ==
    IF ds = <<>> THEN [hi |-> 0, lo |-> 0, wide |-> FALSE]
    ELSE LET p == DecimalValue(SubSeq(ds, 1, Len(ds) - 1))
             l == 10 * p.lo + DigitVal(ds[Len(ds)])
             h == 10 * p.hi + (l \div Limb)
         IN  [hi |-> h % Limb, lo |-> l % Limb, wide |-> p.wide \/ h >= Limb]

\* strconv.Atoi(s), for strings of at most 18 digits (which fit the 64-bit
\* int): an optional sign, then one or more decimal digits
Atoi(s) ==
    LET signed == s # <<>> /\ s[1] \in {"+", "-"}
        ds     == IF signed THEN Tail(s) ELSE s
    IN  [ok  |-> ds # <<>> /\ \A i \in 1..Len(ds) : IsDigit(ds[i]),
         neg |-> signed /\ s[1] = "-",
         mag |-> IF ds # <<>> /\ \A i \in 1..Len(ds) : IsDigit(ds[i])
                 THEN DecimalValue(ds)
                 ELSE DecimalValue(<<>>)]

\* the 32-bit word of the limbs hi, lo
LimbWord(hi, lo) == Word(lo) \cup {i + 16 : i \in Word(hi)}

\* uint32(v) of the int v: the low 32 bits of its two's complement
Uint32(v) ==
    IF ~v.neg \/ (v.mag.hi = 0 /\ v.mag.lo = 0 /\ ~v.mag.wide)
    THEN LimbWord(v.mag.hi, v.mag.lo)
    ELSE IF v.mag.lo > 0
    THEN (0..31) \ LimbWord(v.mag.hi, v.mag.lo - 1)
    ELSE (0..31) \ LimbWord((v.mag.hi + Limb - 1) % Limb, Limb - 1)

\* the account and group databases that os/user consults: name -> id string
\* ("svc" has an id that is no decimal number, as on a platform with SIDs)
Accounts == [name \in {<<"a", "l", "i", "c", "e">>, <<"s", "v", "c">>} |->
                IF name = <<"s", "v", "c">> THEN <<"S", "-", "1">>
                ELSE <<"1", "0", "0", "1">>]

Groups == [name \in {<<"s", "t", "a", "f", "f">>} |-> <<"5", "0">>]

\* user.Lookup(name), user.LookupGroup(name)
Lookup(db, name) ==
    IF name \in DOMAIN db THEN [ok |-> TRUE, id |-> db[name]]
    ELSE [ok |-> FALSE, id |-> <<>>]

\* lines 65-71 and 73-79 of fillFromXFI: the id an owner/group string
\* resolves to, and the names looked up on the way
ResolveId_AlwaysLookup(db, name, prior) ==
    LET l == Lookup(db, name)
    IN  IF l.ok /\ Atoi(l.id).ok
        THEN [id |-> Uint32(Atoi(l.id)), looked |-> <<name>>]
        ELSE IF Atoi(name).ok
        THEN [id |-> Uint32(Atoi(name)), looked |-> <<name>>]
        ELSE [id |-> prior, looked |-> <<name>>]

ResolveId(db, name, prior) ==
    IF Atoi(name).ok
    THEN [id |-> Uint32(Atoi(name)), looked |-> <<>>]
    ELSE LET l == Lookup(db, name)
         IN  IF l.ok /\ Atoi(l.id).ok
             THEN [id |-> Uint32(Atoi(l.id)), looked |-> <<name>>]
             ELSE [id |-> prior, looked |-> <<name>>]

\* st is [attr, userLookups, groupLookups]: the output record and the
\* lookups made so far
fillFromXFI(xfi, st) ==
    LET u == ResolveId(Accounts, xfi.owner, st.attr.Uid)
        g == ResolveId(Groups, xfi.group, st.attr.Gid)
    IN  [attr |-> [st.attr EXCEPT
                     !.Atime = xfi.atime[1], !.Atimensec = xfi.atime[2],
                     !.Ctime = xfi.ctime[1], !.Ctimensec = xfi.ctime[2],
                     !.Uid = u.id, !.Gid = g.id],
         userLookups  |-> st.userLookups \o u.looked,
         groupLookups |-> st.groupLookups \o g.looked]

fillFromStat(sys, st) ==
    [st EXCEPT !.attr =
        [st.attr EXCEPT
            !.Ino = sys.Ino, !.Nlink = sys.Nlink,
            !.Uid = sys.Uid, !.Gid = sys.Gid,
            !.Rdev = sys.Rdev, !.Blksize = sys.Blksize,
            !.Blocks = sys.Blocks,
            !.Atime = sys.Atim[1], !.Atimensec = sys.Atim[2],
            !.Ctime = sys.Ctim[1], !.Ctimensec = sys.Ctim[2]]]

\* default block size of statToAttr
DefaultBlksize == 4096

\* a source fi is [size, mode, mtime, xfi, sys, ext]:
\*   xfi  the Extended Metadata fi itself exposes (fi.(fsx.FileInfo)), or NoXFI
\*   sys  the Raw System Stat behind fi.Sys(), or NoStat
\*   ext  the view fsx.ExtendFileInfo(fi) synthesizes, or NoXFI when it is nil
NoStat == [has |-> FALSE]
NoXFI  == [has |-> FALSE]

IsXFI(fi) == fi.xfi.has

\* fi.IsDir(), which is fi.Mode().IsDir()
IsDir(fi) == fi.mode \cap ModeDir # {}

\* lines 109-119: the baseline fields and the defaults
StatBase_NoCtimeDefault(fi, out) ==
    [out EXCEPT
        !.Size = fi.size, !.Mode = toFuseMode(fi.mode),
        !.Mtime = fi.mtime[1], !.Mtimensec = fi.mtime[2],
        !.Atime = fi.mtime[1], !.Atimensec = fi.mtime[2],
        !.Blksize = DefaultBlksize, !.Nlink = 1]

StatBase(fi, out) ==
    [out EXCEPT
        !.Size = fi.size, !.Mode = toFuseMode(fi.mode),
        !.Mtime = fi.mtime[1], !.Mtimensec = fi.mtime[2],
        !.Atime = fi.mtime[1], !.Atimensec = fi.mtime[2],
        !.Ctime = fi.mtime[1], !.Ctimensec = fi.mtime[2],
        !.Blksize = DefaultBlksize, !.Nlink = 1]

\* lines 121-132: fi.(fsx.FileInfo), else fi.Sys().(*syscall.Stat_t), else
\* fsx.ExtendFileInfo(fi)
StatEnrich(fi, st) ==
    IF IsXFI(fi) THEN fillFromXFI(fi.xfi, st)
    ELSE IF fi.sys.has THEN fillFromStat(fi.sys, st)
    ELSE IF fi.ext.has THEN fillFromXFI(fi.ext, st)
    ELSE st

\* lines 138-146: the raw stat supplements the Extended Metadata
StatSupplement_NlinkAlways(fi, st) ==
    IF IsXFI(fi) /\ fi.sys.has
    THEN [st EXCEPT !.attr = [st.attr EXCEPT
            !.Ino = fi.sys.Ino, !.Rdev = fi.sys.Rdev,
            !.Blksize = fi.sys.Blksize, !.Blocks = fi.sys.Blocks,
            !.Nlink = fi.sys.Nlink]]
    ELSE st

StatSupplement(fi, st) ==
    IF IsXFI(fi) /\ fi.sys.has
    THEN [st EXCEPT !.attr = [st.attr EXCEPT
            !.Ino = fi.sys.Ino, !.Rdev = fi.sys.Rdev,
            !.Blksize = fi.sys.Blksize, !.Blocks = fi.sys.Blocks,
            !.Nlink = IF fi.sys.Nlink > 0 THEN fi.sys.Nlink ELSE @]]
    ELSE st

\* lines 150-152: directories have at least 2 links
StatDirFix_Off(fi, st) == st

StatDirFix(fi, st) ==
    IF IsDir(fi) /\ st.attr.Nlink < 2
    THEN [st EXCEPT !.attr.Nlink = 2]
    ELSE st

statToAttr(fi, out) ==
    StatDirFix(fi,
        StatSupplement(fi,
            StatEnrich(fi, [attr |-> StatBase(fi, out),
                            userLookups |-> <<>>, groupLookups |-> <<>>])))

----------------------------------------------------------------------------
(***************************************************************************)
(* SpecAttr: statToAttr applied to a source and an output record that is   *)
(* either fresh (all zero) or reused.                                      *)
(***************************************************************************)
MaxNlink == 3

Str1000   == <<"1", "0", "0", "0">>
StrMinus1 == <<"-", "1">>
\* 2^32
StrWide   == <<"4", "2", "9", "4", "9", "6", "7", "2", "9", "6">>
StrAlice  == <<"a", "l", "i", "c", "e">>
StrSvc    == <<"s", "v", "c">>
StrNobody == <<"d", "o", "e", "s", "n", "o", "t", "e", "x", "i", "s", "t">>
StrStaff  == <<"s", "t", "a", "f", "f">>

OwnerStrings == {Str1000, StrMinus1, StrWide, StrAlice, StrSvc, StrNobody, <<>>}
GroupStrings == {Str1000, StrStaff, StrNobody}

TimeM == <<300, 30>>
TimeA == <<100, 10>>
TimeC == <<200, 20>>

XFIViews ==
    {[has |-> TRUE, atime |-> t[1], ctime |-> t[2], owner |-> o, group |-> g] :
        t \in {<<TimeA, TimeC>>, <<TimeM, TimeM>>},
        o \in OwnerStrings, g \in GroupStrings}

Stats ==
    {[has |-> TRUE, Ino |-> 123, Nlink |-> n, Uid |-> Word(501),
      Gid |-> Word(20), Rdev |-> 5, Blksize |-> 512, Blocks |-> 8,
      Atim |-> <<110, 11>>, Ctim |-> <<220, 22>>] : n \in 0..MaxNlink}

Sources ==
    {[size |-> 1024, mode |-> m, mtime |-> TimeM, xfi |-> x, sys |-> s,
      ext |-> e] :
        m \in {Word(420), ModeDir \cup Word(493)},
        x \in XFIViews, s \in Stats \cup {NoStat}, e \in {NoXFI}}
    \cup
    {[size |-> 1024, mode |-> m, mtime |-> TimeM, xfi |-> NoXFI, sys |-> s,
      ext |-> e] :
        m \in {Word(420), ModeDir \cup Word(493)},
        s \in Stats \cup {NoStat}, e \in XFIViews \cup {NoXFI}}

ZeroAttr ==
    [Size |-> 0, Mode |-> {}, Mtime |-> 0, Mtimensec |-> 0, Atime |-> 0,
     Atimensec |-> 0, Ctime |-> 0, Ctimensec |-> 0, Blksize |-> 0,
     Nlink |-> 0, Uid |-> {}, Gid |-> {}, Ino |-> 0, Rdev |-> 0, Blocks |-> 0]

\* a record that an earlier query filled
UsedAttr ==
    [Size |-> 7, Mode |-> S_IFREG, Mtime |-> 1, Mtimensec |-> 1, Atime |-> 1,
     Atimensec |-> 1, Ctime |-> 1, Ctimensec |-> 1, Blksize |-> 1024,
     Nlink |-> 5, Uid |-> Word(1000), Gid |-> Word(1000), Ino |-> 99,
     Rdev |-> 3, Blocks |-> 16]

InitAttr ==
    /\ FhNone
    /\ input \in {[fi |-> f, out |-> o] : f \in Sources, o \in {ZeroAttr, UsedAttr}}
    /\ mid = <<>>
    /\ output = [attr |-> ZeroAttr, userLookups |-> <<>>, groupLookups |-> <<>>]
    /\ upc = "ready"

CallStatToAttr ==
    /\ upc = "ready"
    /\ output' = statToAttr(input.fi, input.out)
    /\ upc' = "done"
    /\ UNCHANGED <<input, mid>>
    /\ UNCHANGED fhVars

NextAttr == CallStatToAttr

SpecAttr == InitAttr /\ [][NextAttr]_vars

----------------------------------------------------------------------------
(***************************************************************************)
(* The file handle (filehandle.go).                                        *)
(*                                                                         *)
(* A handler runs as a sequence of steps, one per backend call; what the   *)
(* backend answers to a call, the count n and the error, is chosen         *)
(* nondeterministically within the contract 0 <= n <= len(buffer).  A byte *)
(* slice is [n, b]: n bytes of value b (the model's slices are uniform).   *)
(* call[p] records the call of caller p: its arguments, the backend calls  *)
(* it issued (log), the messages it logged, and what it returned (ret).    *)
(***************************************************************************)

\* bounds of the model
MaxBuf  == 2
MaxLoop == 2
Gap     == 5

\* zeros := make([]byte, 4096)
ZeroChunk == 4096

\* the buffer io.Discard reads into (io.CopyN)
DiscardBuf == 8192

\* the offsets of the requests
RequestOffsets == {0, Gap, 2 * Gap, ZeroChunk + Gap}

\* the lengths of the buffers of the requests
RequestLens == {0, MaxBuf}

\* the bytes the backend's data may consist of
SrcBytes == {7, 9}

\* what the backend may answer to ReadAt, WriteAt, Seek and Close, and to a
\* sequential Read or Write
FileErrs == {NilErr, <<EOF>>, <<Generic>>, <<ErrUnsupported>>, <<Errno(ENOSYS)>>}

StreamErrs == {NilErr, <<EOF>>, <<Generic>>}

\* the counts a backend call on a buffer of len bytes may report: nothing,
\* one byte short, all
Counts(len) == {k \in {0, len - 1, len} : k >= 0}

Bytes(n, b) == [n |-> n, b |-> b]

NoResult == [nil |-> TRUE, n |-> 0, b |-> 0]

\* the buffer dest after a read that stored n bytes of value b in it
Filled(len, n, b) == Bytes(len, IF n > 0 THEN b ELSE 0)

\* fuse.ReadResultData(dest[:n])
ReadResultData_WholeBuffer(dest, n) == [nil |-> FALSE, n |-> dest.n, b |-> dest.b]

ReadResultData(dest, n) ==
    [nil |-> FALSE, n |-> n, b |-> IF n > 0 THEN dest.b ELSE 0]

\* node.Open / node.Create: &fileHandle{f: f, logger: n.logger}
NewFileHandle_StaleOffset(caps) ==
    [file |-> [open |-> TRUE, readerAt |-> caps[1], writerAt |-> caps[2],
               seeker |-> caps[3]],
     offset |-> Gap]

NewFileHandle(caps) ==
    [file |-> [open |-> TRUE, readerAt |-> caps[1], writerAt |-> caps[2],
               seeker |-> caps[3]],
     offset |-> 0]

Open ==
    /\ ~file.open
    /\ \E caps \in BOOLEAN \X BOOLEAN \X BOOLEAN :
          /\ file' = NewFileHandle(caps).file
          /\ offset' = NewFileHandle(caps).offset
    /\ UNCHANGED <<mu, closed, pc, call>>
    /\ UNCHANGED utilVars

\* the entry of a handler: the caller's record of the call
NewCall(op, off, len) ==
    [op |-> op, off |-> off, len |-> len, pre |-> 0, remaining |-> 0,
     written |-> 0, turn |-> 0, log |-> <<>>, logged |-> <<>>,
     ret |-> [errno |-> 0, n |-> 0, data |-> NoResult]]

Idle(p) == pc[p] \in {"idle", "done"}

\* a backend call in the log: buf is the slice handed over, as the call
\* leaves it; n and err are what the call answered
BackendCall(op, arg, buf, n, err) ==
    [op |-> op, arg |-> arg, buf |-> buf, n |-> n, err |-> err]

\* the handler returns (the deferred fh.mu.Unlock runs)
Return(p, c, errno, n, data) ==
    /\ call' = [call EXCEPT ![p] = [c EXCEPT !.ret =
                    [errno |-> errno, n |-> n, data |-> data]]]
    /\ pc' = [pc EXCEPT ![p] = "done"]
    /\ mu' = 0

Goto(p, c, label) ==
    /\ call' = [call EXCEPT ![p] = c]
    /\ pc' = [pc EXCEPT ![p] = label]
    /\ UNCHANGED mu

Logged(c, msg) == [c EXCEPT !.logged = Append(@, msg)]

Called(c, bc) == [c EXCEPT !.log = Append(@, bc)]

\* the reads or writes of the backend that the call has issued
LoopCalls(c) == Cardinality({i \in 1..Len(c.log) : c.log[i].op \in {"Read", "Write"}})

\* errors.Is(err, errors.ErrUnsupported): the tier is skipped
TierSkipped_Never(err) == FALSE

TierSkipped_AnyError(err) == err # NilErr

TierSkipped(err) == ErrorsIs(err, ErrUnsupported)

\* the tracked offset after a read or write of n bytes
Advance_Back(tracked, n) == IF n > 0 THEN tracked - n ELSE tracked

Advance(tracked, n) == IF n > 0 THEN tracked + n ELSE tracked

\* err != nil && err != io.EOF
ReadFailed(err) == err # NilErr /\ err # <<EOF>>

----------------------------------------------------------------------------
\* fileHandle.Read

StartRead(p) ==
    /\ file.open /\ ~closed /\ Idle(p)
    /\ \E off \in RequestOffsets, len \in RequestLens :
          call' = [call EXCEPT ![p] = NewCall("Read", off, len)]
    /\ pc' = [pc EXCEPT ![p] = "RLock"]
    /\ UNCHANGED <<file, offset, mu, closed>>
    /\ UNCHANGED utilVars

\* fh.mu.Lock()
ReadLock_NoWait(p) ==
    /\ pc[p] = "RLock"
    /\ mu' = p
    /\ pc' = [pc EXCEPT ![p] = "RTier1"]
    /\ call' = [call EXCEPT ![p].pre = offset]
    /\ UNCHANGED <<file, offset, closed>>
    /\ UNCHANGED utilVars

ReadLock(p) ==
    /\ pc[p] = "RLock" /\ mu = 0
    /\ mu' = p
    /\ pc' = [pc EXCEPT ![p] = "RTier1"]
    /\ call' = [call EXCEPT ![p].pre = offset]
    /\ UNCHANGED <<file, offset, closed>>
    /\ UNCHANGED utilVars

\* lines 42-51
ReadTier1(p) ==
    /\ pc[p] = "RTier1"
    /\ LET c == call[p] IN
       IF ~file.readerAt THEN Goto(p, c, "RTier2")
       ELSE \E n \in Counts(c.len), err \in FileErrs, b \in SrcBytes :
               LET c1 == Called(c, BackendCall("ReadAt", c.off, Filled(c.len, n, b), n, err))
               IN  IF TierSkipped(err) THEN Goto(p, c1, "RTier2")
                   ELSE IF ReadFailed(err)
                   THEN Return(p, Logged(c1, "ReadAt failed"), toErrno(err),
                               0, NoResult)
                   ELSE Return(p, c1, 0, n, ReadResultData(Filled(c.len, n, b), n))
    /\ UNCHANGED <<file, offset, closed>>
    /\ UNCHANGED utilVars

\* lines 53-57
ReadTier2_FallsThrough(p) ==
    /\ pc[p] = "RTier2"
    /\ LET c == call[p] IN
       IF ~file.seeker THEN Goto(p, c, "RTier3")
       ELSE \E err \in FileErrs :
               LET c1 == Called(c, BackendCall("Seek", c.off, Bytes(0, 0), 0, err))
               IN  IF TierSkipped(err) THEN Goto(p, c1, "RTier3")
                   ELSE IF err # NilErr
                   THEN Return(p, Logged(c1, "Seek failed"), toErrno(err),
                               0, NoResult)
                   ELSE Goto(p, c1, "RSeekRead")
    /\ UNCHANGED <<file, offset, closed>>
    /\ UNCHANGED utilVars

ReadTier2(p) ==
    /\ pc[p] = "RTier2"
    /\ LET c == call[p] IN
       IF ~file.seeker THEN Goto(p, c, "RTier3")
       ELSE \E err \in FileErrs :
               LET c1 == Called(c, BackendCall("Seek", c.off, Bytes(0, 0), 0, err))
               IN  IF err # NilErr
                   THEN Return(p, Logged(c1, "Seek failed"), toErrno(err),
                               0, NoResult)
                   ELSE Goto(p, c1, "RSeekRead")
    /\ UNCHANGED <<file, offset, closed>>
    /\ UNCHANGED utilVars

\* lines 58-63
ReadAfterSeek(p) ==
    /\ pc[p] = "RSeekRead"
    /\ LET c == call[p] IN
       \E n \in Counts(c.len), err \in StreamErrs, b \in SrcBytes :
          LET c1 == Called(c, BackendCall("Read", 0, Filled(c.len, n, b), n, err))
          IN  IF ReadFailed(err)
              THEN Return(p, Logged(c1, "Read failed after seek"),
                          toErrno(err), 0, NoResult)
              ELSE Return(p, c1, 0, n, ReadResultData(Filled(c.len, n, b), n))
    /\ UNCHANGED <<file, offset, closed>>
    /\ UNCHANGED utilVars

\* lines 66-69: the sequential tier looks at the tracked offset
ReadBackwards_Allowed(off, tracked) == FALSE

ReadBackwards(off, tracked) == off < tracked

ReadTier3(p) ==
    /\ pc[p] = "RTier3"
    /\ LET c == call[p] IN
       IF ReadBackwards(c.off, offset) THEN Return(p, c, ENOSYS, 0, NoResult)
       ELSE IF c.off > offset
       THEN Goto(p, [c EXCEPT !.remaining = c.off - offset, !.written = 0],
                 "RDiscard")
       ELSE Goto(p, c, "RRead")
    /\ UNCHANGED <<file, offset, closed>>
    /\ UNCHANGED utilVars

\* what io.CopyN(io.Discard, fh.f, gap) returns when its reads end with
\* error err after written bytes: [n, err]
CopyN_LosesCount(gap, written, err) ==
    LET e == IF err = <<EOF>> THEN NilErr ELSE err
    IN  IF written = gap THEN [n |-> written, err |-> NilErr]
        ELSE [n |-> IF e = NilErr THEN written ELSE 0,
              err |-> IF e = NilErr THEN <<EOF>> ELSE e]

CopyN_ShortIsNil(gap, written, err) ==
    LET e == IF err = <<EOF>> THEN NilErr ELSE err
    IN  IF written = gap THEN [n |-> written, err |-> NilErr]
        ELSE [n |-> written, err |-> e]

CopyN(gap, written, err) ==
    LET e == IF err = <<EOF>> THEN NilErr ELSE err
    IN  IF written = gap THEN [n |-> written, err |-> NilErr]
        ELSE [n |-> written, err |-> IF e = NilErr THEN <<EOF>> ELSE e]

\* lines 70-79: one read of io.CopyN's loop, and, when it is the last one,
\* what follows the return of io.CopyN
ReadDiscard(p) ==
    /\ pc[p] = "RDiscard"
    /\ LET c    == call[p]
           size == IF c.remaining < DiscardBuf THEN c.remaining ELSE DiscardBuf
       IN
       /\ LoopCalls(c) < MaxLoop
       /\ \E n \in Counts(size), err \in StreamErrs :
             LET c1 == [Called(c, BackendCall("Read", 0, Bytes(size, 0), n, err))
                           EXCEPT !.remaining = @ - n, !.written = @ + n]
                 r  == CopyN(c.off - offset, c1.written, err)
             IN  IF err = NilErr /\ c1.remaining > 0
                 THEN Goto(p, c1, "RDiscard") /\ UNCHANGED offset
                 ELSE /\ offset' = offset + r.n
                      /\ IF r.err = NilErr THEN Goto(p, c1, "RRead")
                         ELSE IF r.err = <<EOF>>
                         THEN Return(p, c1, 0, 0, ReadResultData(Bytes(0, 0), 0))
                         ELSE Return(p, Logged(c1, "Discard forward failed"),
                                     toErrno(r.err), 0, NoResult)
    /\ UNCHANGED <<file, closed>>
    /\ UNCHANGED utilVars

\* lines 81-89
ReadPayload(p) ==
    /\ pc[p] = "RRead"
    /\ LET c == call[p] IN
       \E n \in Counts(c.len), err \in StreamErrs, b \in SrcBytes :
          LET c1 == Called(c, BackendCall("Read", 0, Filled(c.len, n, b), n, err))
          IN  /\ offset' = Advance(offset, n)
              /\ IF ReadFailed(err)
                 THEN Return(p, Logged(c1, "Read failed"), toErrno(err),
                             0, NoResult)
                 ELSE Return(p, c1, 0, n, ReadResultData(Filled(c.len, n, b), n))
    /\ UNCHANGED <<file, closed>>
    /\ UNCHANGED utilVars

----------------------------------------------------------------------------
\* fileHandle.Write

StartWrite(p) ==
    /\ file.open /\ ~closed /\ Idle(p)
    /\ \E off \in RequestOffsets, len \in RequestLens :
          call' = [call EXCEPT ![p] = NewCall("Write", off, len)]
    /\ pc' = [pc EXCEPT ![p] = "WLock"]
    /\ UNCHANGED <<file, offset, mu, closed>>
    /\ UNCHANGED utilVars

\* fh.mu.Lock()
WriteLock(p) ==
    /\ pc[p] = "WLock" /\ mu = 0
    /\ mu' = p
    /\ pc' = [pc EXCEPT ![p] = "WTier1"]
    /\ call' = [call EXCEPT ![p].pre = offset]
    /\ UNCHANGED <<file, offset, closed>>
    /\ UNCHANGED utilVars

\* the payload of the call: data
Payload(c) == Bytes(c.len, 7)

\* lines 103-111
WriteTier1(p) ==
    /\ pc[p] = "WTier1"
    /\ LET c == call[p] IN
       IF ~file.writerAt THEN Goto(p, c, "WTier2")
       ELSE \E n \in Counts(c.len), err \in FileErrs \ {<<EOF>>} :
               LET c1 == Called(c, BackendCall("WriteAt", c.off, Payload(c), n, err))
               IN  IF TierSkipped(err) THEN Goto(p, c1, "WTier2")
                   ELSE Return(p, IF err # NilErr
                                  THEN Logged(c1, "WriteAt failed") ELSE c1,
                               toErrno(err), n, NoResult)
    /\ UNCHANGED <<file, offset, closed>>
    /\ UNCHANGED utilVars

\* lines 113-117
WriteTier2(p) ==
    /\ pc[p] = "WTier2"
    /\ LET c == call[p] IN
       IF ~file.seeker THEN Goto(p, c, "WTier3")
       ELSE \E err \in FileErrs \ {<<EOF>>} :
               LET c1 == Called(c, BackendCall("Seek", c.off, Bytes(0, 0), 0, err))
               IN  IF err # NilErr
                   THEN Return(p, Logged(c1, "Seek failed"), toErrno(err),
                               0, NoResult)
                   ELSE Goto(p, c1, "WSeekWrite")
    /\ UNCHANGED <<file, offset, closed>>
    /\ UNCHANGED utilVars

\* lines 118-122
WriteAfterSeek(p) ==
    /\ pc[p] = "WSeekWrite"
    /\ LET c == call[p] IN
       \E n \in Counts(c.len), err \in StreamErrs \ {<<EOF>>} :
          LET c1 == Called(c, BackendCall("Write", 0, Payload(c), n, err))
          IN  Return(p, IF err # NilErr
                        THEN Logged(c1, "Write failed after seek") ELSE c1,
                     toErrno(err), n, NoResult)
    /\ UNCHANGED <<file, offset, closed>>
    /\ UNCHANGED utilVars

\* lines 125-131
WriteBackwards(off, tracked) == off < tracked

WriteTier3(p) ==
    /\ pc[p] = "WTier3"
    /\ LET c == call[p] IN
       IF WriteBackwards(c.off, offset) THEN Return(p, c, ENOSYS, 0, NoResult)
       ELSE IF c.off > offset
       THEN Goto(p, [c EXCEPT !.remaining = c.off - offset], "WPad")
       ELSE Goto(p, c, "WWrite")
    /\ UNCHANGED <<file, offset, closed>>
    /\ UNCHANGED utilVars

\* toWrite := min(remaining, int64(len(zeros)))
ToWrite_Whole(remaining) == remaining

ToWrite(remaining) == IF remaining < ZeroChunk THEN remaining ELSE ZeroChunk

\* lines 131-142: one turn of the padding loop
WritePad(p) ==
    /\ pc[p] = "WPad"
    /\ LET c == call[p] IN
       /\ LoopCalls(c) < MaxLoop
       /\ \E n \in Counts(ToWrite(c.remaining)), err \in StreamErrs \ {<<EOF>>} :
             LET c1 == [Called(c, BackendCall("Write", 0,
                                   Bytes(ToWrite(c.remaining), 0), n, err))
                           EXCEPT !.remaining = IF n > 0 THEN @ - n ELSE @]
             IN  /\ offset' = IF n > 0 THEN offset + n ELSE offset
                 /\ IF err # NilErr
                    THEN Return(p, Logged(c1, "Write zeros (padding) failed"),
                                toErrno(err), 0, NoResult)
                    ELSE IF c1.remaining > 0 THEN Goto(p, c1, "WPad")
                    ELSE Goto(p, c1, "WWrite")
    /\ UNCHANGED <<file, closed>>
    /\ UNCHANGED utilVars

\* lines 131-142: a turn of the padding loop after the first MaxLoop backend
\* writes of the call.  The log keeps those first writes only; of the later
\* turns the call keeps what the loop itself keeps (remaining, fh.offset)
\* and the parity of their number.
WritePadOn(p) ==
    /\ pc[p] = "WPad"
    /\ LET c == call[p] IN
       /\ LoopCalls(c) >= MaxLoop
       /\ \E n \in Counts(ToWrite(c.remaining)), err \in StreamErrs \ {<<EOF>>} :
             LET c1 == [c EXCEPT !.remaining = IF n > 0 THEN @ - n ELSE @,
                                 !.turn = 1 - @]
             IN  /\ offset' = IF n > 0 THEN offset + n ELSE offset
                 /\ IF err # NilErr
                    THEN Return(p, Logged(c1, "Write zeros (padding) failed"),
                                toErrno(err), 0, NoResult)
                    ELSE IF c1.remaining > 0 THEN Goto(p, c1, "WPad")
                    ELSE Goto(p, c1, "WWrite")
    /\ UNCHANGED <<file, closed>>
    /\ UNCHANGED utilVars

\* lines 145-152
WritePayload(p) ==
    /\ pc[p] = "WWrite"
    /\ LET c == call[p] IN
       \E n \in Counts(c.len), err \in StreamErrs \ {<<EOF>>} :
          LET c1 == Called(c, BackendCall("Write", 0, Payload(c), n, err))
          IN  /\ offset' = Advance(offset, n)
              /\ Return(p, IF err # NilErr
                           THEN Logged(c1, "Write failed") ELSE c1,
                        toErrno(err), n, NoResult)
    /\ UNCHANGED <<file, closed>>
    /\ UNCHANGED utilVars

----------------------------------------------------------------------------
\* fileHandle.Flush: return 0
Flush(p) ==
    /\ file.open /\ ~closed /\ Idle(p)
    /\ call' = [call EXCEPT ![p] = NewCall("Flush", 0, 0)]
    /\ pc' = [pc EXCEPT ![p] = "done"]
    /\ UNCHANGED <<file, offset, mu, closed>>
    /\ UNCHANGED utilVars

\* fileHandle.Release: fh.f.Close()
Release_NoClose(p) ==
    /\ file.open /\ ~closed /\ Idle(p)
    /\ call' = [call EXCEPT ![p] = NewCall("Release", 0, 0)]
    /\ closed' = TRUE
    /\ pc' = [pc EXCEPT ![p] = "done"]
    /\ UNCHANGED <<file, offset, mu>>
    /\ UNCHANGED utilVars

Release(p) ==
    /\ file.open /\ ~closed /\ Idle(p)
    /\ \E err \in FileErrs \ {<<EOF>>} :
          LET c  == NewCall("Release", 0, 0)
              c1 == Called(c, BackendCall("Close", 0, Bytes(0, 0), 0, err))
              c2 == IF err # NilErr THEN Logged(c1, "Release failed") ELSE c1
          IN  call' = [call EXCEPT ![p] =
                          [c2 EXCEPT !.ret = [errno |-> toErrno(err), n |-> 0,
                                              data |-> NoResult]]]
    /\ closed' = TRUE
    /\ pc' = [pc EXCEPT ![p] = "done"]
    /\ UNCHANGED <<file, offset, mu>>
    /\ UNCHANGED utilVars

----------------------------------------------------------------------------
(***************************************************************************)
(* Spec: one file handle, created by Open, and one caller that issues      *)
(* Read, Write, Flush and Release calls on it, one after the other.        *)
(***************************************************************************)
Init ==
    /\ FhNone
    /\ input = <<>>
    /\ mid = <<>>
    /\ output = <<>>
    /\ upc = "none"

Handler(p) ==
    \/ StartRead(p) \/ ReadLock(p) \/ ReadTier1(p) \/ ReadTier2(p)
    \/ ReadAfterSeek(p) \/ ReadTier3(p) \/ ReadDiscard(p) \/ ReadPayload(p)
    \/ StartWrite(p) \/ WriteLock(p) \/ WriteTier1(p) \/ WriteTier2(p)
    \/ WriteAfterSeek(p) \/ WriteTier3(p) \/ WritePad(p) \/ WritePayload(p)
    \/ Flush(p) \/ Release(p)

Next == Open \/ Handler(1)

Spec == Init /\ [][Next]_vars

----------------------------------------------------------------------------
(***************************************************************************)
(* SpecPad: one file handle and one caller that issues Write calls, the    *)
(* padding loop running for as many turns as the backend makes it run.  A  *)
(* handler that has been entered keeps running: its steps are taken as     *)
(* long as one is possible (the lock is free or its own).  Nothing makes   *)
(* the caller start a call.                                                *)
(***************************************************************************)
RunWrite(p) ==
    \/ WriteLock(p) \/ WriteTier1(p) \/ WriteTier2(p) \/ WriteAfterSeek(p)
    \/ WriteTier3(p) \/ WritePad(p) \/ WritePadOn(p) \/ WritePayload(p)

NextPad == Open \/ StartWrite(1) \/ RunWrite(1)

SpecPad == Init /\ [][NextPad]_vars /\ WF_vars(RunWrite(1))

----------------------------------------------------------------------------
(***************************************************************************)
(* SpecConc: one file handle and the callers of Callers, whose calls       *)
(* interleave step by step.  To keep the interleavings enumerable the      *)
(* requests and the backend's answers are drawn from smaller sets than in  *)
(* Spec: ConcCall says which.                                              *)
(***************************************************************************)
ConcOffsets == {0, Gap}

ConcErrs == {NilErr, <<Generic>>, <<ErrUnsupported>>}

ConcCall(c) ==
    \/ c.op \in {"none", "Flush"}
    \/ /\ c.op = "Release"
       /\ c.log[1].err \in ConcErrs
    \/ /\ c.op \in {"Read", "Write"}
       /\ c.off \in ConcOffsets
       /\ c.len = MaxBuf
       /\ \A i \in 1..Len(c.log) :
             /\ c.log[i].err \in ConcErrs
             /\ c.log[i].n = c.log[i].buf.n
             /\ c.log[i].buf.b \in {0, 7}

NextConc ==
    \/ Open
    \/ \E p \in Callers : Handler(p) /\ ConcCall(call'[p])

SpecConc == Init /\ [][NextConc]_vars

----------------------------------------------------------------------------
(***************************************************************************)
(* The path node (node.go).                                                *)
(*                                                                         *)
(* A node is its path, a sequence of names ("." is the empty sequence).    *)
(* The backend answers every call nondeterministically.  The result of an  *)
(* operation is [errno, log, logged, out]: the code returned, the backend  *)
(* calls issued, the records sent to the logger and what the caller gets.  *)
(***************************************************************************)

\* path.Join(dir, name), name a single path element
Join(dir, name) == dir \o <<name>>

\* what the backend may answer to a call
NodeErrs == {NilErr, <<Generic>>, <<ErrNotExist>>, <<ErrPermission>>}

\* the attributes the backend may report
FileInfoFile ==
    [size |-> 123, mode |-> Word(420), mtime |-> TimeM, xfi |-> NoXFI,
     sys |-> NoStat, ext |-> NoXFI]

FileInfoDir ==
    [size |-> 0, mode |-> ModeDir \cup Word(493), mtime |-> TimeA,
     xfi |-> NoXFI,
     sys |-> [has |-> TRUE, Ino |-> 123, Nlink |-> 2, Uid |-> Word(501),
              Gid |-> Word(20), Rdev |-> 5, Blksize |-> 512, Blocks |-> 8,
              Atim |-> <<110, 11>>, Ctim |-> <<220, 22>>],
     ext |-> NoXFI]

FileInfos == {FileInfoFile, FileInfoDir}

\* the answer of a stat: (fi, err)
StatAnswers ==
    {[fi |-> fi, err |-> NilErr] : fi \in FileInfos}
    \cup {[fi |-> FileInfoFile, err |-> e] : e \in NodeErrs \ {NilErr}}

NodePaths == {<<>>, <<"root">>}
Names     == {"old", "new"}

\* a backend call of the log, and a record of the logger
FsCall(op, path, err) == [op |-> op, path |-> path, err |-> err]

LogRecord(msg, path, err) == [msg |-> msg, path |-> path, err |-> err]

NoOut == [kind |-> "none"]

Result(errno, log, logged, out) ==
    [errno |-> errno, log |-> log, logged |-> logged, out |-> out]

\* the attributes statToAttr stores in a fresh out.Attr
AttrOf(fi) == statToAttr(fi, ZeroAttr).attr

\* n.NewInode(ctx, child, id) with id = StableAttr{toFuseMode(fi.Mode()), out.Ino}
NewInode(childPath, fi) ==
    [path |-> childPath, Mode |-> toFuseMode(fi.mode), Ino |-> AttrOf(fi).Ino]

\* the handles the engine may pass: none, a fileHandle of this layer whose
\* file answers Stat with hs, a handle of another type
HandleKinds == {"nil", "fileHandle", "other"}

\* node.Getattr
GetattrResult_PathFirst(n, f, hs, ls) ==
    IF ls.err = NilErr
    THEN Result(0, <<FsCall("Lstat", n, NilErr)>>, <<>>,
                [kind |-> "attr", attr |-> AttrOf(ls.fi)])
    ELSE Result(toErrno(ls.err), <<FsCall("Lstat", n, ls.err)>>,
                IF toErrno(ls.err) # ENOENT
                THEN <<LogRecord("Getattr failed", n, ls.err)>> ELSE <<>>,
                NoOut)

GetattrResult(n, f, hs, ls) ==
    LET viaHandle == IF f = "fileHandle"
                     THEN <<FsCall("File.Stat", n, hs.err)>> ELSE <<>>
    IN  IF f = "fileHandle" /\ hs.err = NilErr
        THEN Result(0, viaHandle, <<>>, [kind |-> "attr", attr |-> AttrOf(hs.fi)])
        ELSE IF ls.err # NilErr
        THEN Result(toErrno(ls.err),
                    viaHandle \o <<FsCall("Lstat", n, ls.err)>>,
                    IF toErrno(ls.err) # ENOENT
                    THEN <<LogRecord("Getattr failed", n, ls.err)>> ELSE <<>>,
                    NoOut)
        ELSE Result(0, viaHandle \o <<FsCall("Lstat", n, NilErr)>>, <<>>,
                    [kind |-> "attr", attr |-> AttrOf(ls.fi)])

\* node.Lookup
LookupResult(n, name, ls) ==
    LET childPath == Join(n, name) IN
    IF ls.err # NilErr
    THEN Result(toErrno(ls.err), <<FsCall("Lstat", childPath, ls.err)>>,
                IF toErrno(ls.err) # ENOENT
                THEN <<LogRecord("Lookup failed", childPath, ls.err)>> ELSE <<>>,
                NoOut)
    ELSE Result(0, <<FsCall("Lstat", childPath, NilErr)>>, <<>>,
                [kind |-> "entry", attr |-> AttrOf(ls.fi),
                 child |-> NewInode(childPath, ls.fi)])

\* a backend directory entry is [name, type];
\* fuse.DirEntry{Name: entry.Name(), Mode: uint32(entry.Type())}
DirEntry(entry) == [Name |-> entry.name, Mode |-> entry.type]

\* node.Readdir
ReaddirResult(n, entries, err) ==
    IF err # NilErr
    THEN Result(toErrno(err), <<FsCall("ReadDir", n, err)>>,
                <<LogRecord("Readdir failed", n, err)>>, NoOut)
    ELSE Result(0, <<FsCall("ReadDir", n, NilErr)>>, <<>>,
                [kind |-> "stream",
                 r |-> [i \in 1..Len(entries) |-> DirEntry(entries[i])]])

\* syscall.O_CREAT, fuse.FOPEN_KEEP_CACHE
O_CREAT          == Word(64)
FOPEN_KEEP_CACHE == Word(2)

OpenFlags  == {Word(0), Word(2)}
FuseModes  == {S_IFREG \cup Word(420)}
FileCaps   == BOOLEAN \X BOOLEAN \X BOOLEAN

OpenFileCall(path, flags, mode, err) ==
    [op |-> "OpenFile", path |-> path, flags |-> flags, mode |-> mode,
     err |-> err]

\* node.Open
OpenResult(n, flags, caps, err) ==
    IF err # NilErr
    THEN Result(toErrno(err), <<OpenFileCall(n, flags, {}, err)>>,
                <<LogRecord("Open failed", n, err)>>, NoOut)
    ELSE Result(0, <<OpenFileCall(n, flags, {}, NilErr)>>, <<>>,
                [kind |-> "handle", handle |-> NewFileHandle(caps),
                 fuseFlags |-> FOPEN_KEEP_CACHE])

\* node.Create: lines 283-288, the stat of the file just opened fails
CreateStatFailed_NoClose(childPath, hs, ce) ==
    Result(toErrno(hs.err), <<FsCall("File.Stat", childPath, hs.err)>>,
           <<LogRecord("Create: stat failed", childPath, hs.err)>>, NoOut)

CreateStatFailed(childPath, hs, ce) ==
    Result(toErrno(hs.err),
           <<FsCall("File.Stat", childPath, hs.err),
             FsCall("File.Close", childPath, ce)>>,
           <<LogRecord("Create: stat failed", childPath, hs.err)>>, NoOut)

\* the sequel of two results
Then(acc, r) ==
    Result(r.errno, acc.log \o r.log, acc.logged \o r.logged, r.out)

\* node.Create
CreateResult(n, name, flags, mode, caps, err, hs, ce) ==
    LET childPath == Join(n, name)
        open == OpenFileCall(childPath, flags \cup O_CREAT, toFileMode(mode), err)
    IN  IF err # NilErr
        THEN Result(toErrno(err), <<open>>,
                    <<LogRecord("Create failed", childPath, err)>>, NoOut)
        ELSE IF hs.err # NilErr
        THEN Then(Result(0, <<open>>, <<>>, NoOut), CreateStatFailed(childPath, hs, ce))
        ELSE Result(0, <<open, FsCall("File.Stat", childPath, NilErr)>>, <<>>,
                    [kind |-> "created", attr |-> AttrOf(hs.fi),
                     child |-> NewInode(childPath, hs.fi),
                     handle |-> NewFileHandle(caps),
                     fuseFlags |-> FOPEN_KEEP_CACHE])

\* node.Mkdir
MkdirResult(n, name, mode, err, ls) ==
    LET childPath == Join(n, name)
        mk == [op |-> "Mkdir", path |-> childPath, mode |-> toFileMode(mode),
               err |-> err]
    IN  IF err # NilErr
        THEN Result(toErrno(err), <<mk>>,
                    <<LogRecord("Mkdir failed", childPath, err)>>, NoOut)
        ELSE IF ls.err # NilErr
        THEN Result(toErrno(ls.err), <<mk, FsCall("Lstat", childPath, ls.err)>>,
                    <<LogRecord("Mkdir: lstat failed", childPath, ls.err)>>, NoOut)
        ELSE Result(0, <<mk, FsCall("Lstat", childPath, NilErr)>>, <<>>,
                    [kind |-> "entry", attr |-> AttrOf(ls.fi),
                     child |-> NewInode(childPath, ls.fi)])

\* node.Unlink and node.Rmdir
RemoveResult(msg, n, name, err) ==
    LET target == Join(n, name) IN
    Result(toErrno(err), <<FsCall("Remove", target, err)>>,
           IF err # NilErr THEN <<LogRecord(msg, target, err)>> ELSE <<>>, NoOut)

UnlinkResult(n, name, err) == RemoveResult("Unlink failed", n, name, err)

RmdirResult(n, name, err) == RemoveResult("Rmdir failed", n, name, err)

\* node.Symlink
SymlinkResult(n, target, name, err, ls) ==
    LET childPath == Join(n, name)
        sl == [op |-> "Symlink", path |-> childPath, target |-> target,
               err |-> err]
    IN  IF err # NilErr
        THEN Result(toErrno(err), <<sl>>,
                    <<LogRecord("Symlink failed", childPath, err)>>, NoOut)
        ELSE IF ls.err # NilErr
        THEN Result(toErrno(ls.err), <<sl, FsCall("Lstat", childPath, ls.err)>>,
                    <<LogRecord("Symlink: lstat failed", childPath, ls.err)>>, NoOut)
        ELSE Result(0, <<sl, FsCall("Lstat", childPath, NilErr)>>, <<>>,
                    [kind |-> "entry", attr |-> AttrOf(ls.fi),
                     child |-> NewInode(childPath, ls.fi)])

\* node.Readlink
ReadlinkResult(n, link, err) ==
    IF err # NilErr
    THEN Result(toErrno(err), <<FsCall("ReadLink", n, err)>>,
                <<LogRecord("Readlink failed", n, err)>>, NoOut)
    ELSE Result(0, <<FsCall("ReadLink", n, NilErr)>>, <<>>,
                [kind |-> "link", link |-> link])

\* the destination parents the engine may pass: a node of this layer, or an
\* embedder of another type (its path means nothing)
NewParents ==
    {[isNode |-> TRUE, path |-> q] : q \in NodePaths}
    \cup {[isNode |-> FALSE, path |-> <<>>]}

RenameFlags == {0, 1, 2}

\* node.Rename
RenameResult_ParentFirst(n, name, newParent, newName, flags, err) ==
    IF ~newParent.isNode THEN Result(EXDEV, <<>>, <<>>, NoOut)
    ELSE IF flags # 0 THEN Result(ENOSYS, <<>>, <<>>, NoOut)
    ELSE LET oldPath == Join(n, name)
             newPath == Join(newParent.path, newName)
         IN  Result(toErrno(err),
                    <<[op |-> "Rename", path |-> oldPath, to |-> newPath,
                       err |-> err]>>,
                    IF err # NilErr
                    THEN <<LogRecord("Rename failed", oldPath, err)>> ELSE <<>>,
                    NoOut)

RenameResult(n, name, newParent, newName, flags, err) ==
    IF flags # 0 THEN Result(ENOSYS, <<>>, <<>>, NoOut)
    ELSE IF ~newParent.isNode THEN Result(EXDEV, <<>>, <<>>, NoOut)
    ELSE LET oldPath == Join(n, name)
             newPath == Join(newParent.path, newName)
         IN  Result(toErrno(err),
                    <<[op |-> "Rename", path |-> oldPath, to |-> newPath,
                       err |-> err]>>,
                    IF err # NilErr
                    THEN <<LogRecord("Rename failed", oldPath, err)>> ELSE <<>>,
                    NoOut)

\* strconv.FormatUint(v, 10)
RECURSIVE FormatUint(_)
FormatUint(v) ==
    IF v < 10 THEN <<DigitChars[v + 1]>>
    ELSE Append(FormatUint(v \div 10), DigitChars[(v % 10) + 1])

\* the fields of a fuse.SetAttrIn; valid are the fields the caller requested
SetAttrFields == {"mode", "uid", "gid", "mtime", "atime", "size"}

\* the ids a request may carry: root's and an ordinary one
RequestUids == {0, 1001}

SetAttrIns ==
    {[valid |-> v, Mode |-> Word(384), Uid |-> u, Gid |-> 50,
      Mtime |-> <<1000, 0>>, Atime |-> <<2000, 0>>, Size |-> 123] :
        v \in SUBSET SetAttrFields, u \in RequestUids}

Nothing == Result(0, <<>>, <<>>, NoOut)

\* node.chmod
chmod(n, in, err) ==
    IF "mode" \notin in.valid THEN Nothing
    ELSE Result(toErrno(err),
                <<[op |-> "Chmod", path |-> n, mode |-> toFileMode(in.Mode),
                   err |-> err]>>,
                IF err # NilErr THEN <<LogRecord("Chmod failed", n, err)>>
                ELSE <<>>, NoOut)

\* node.chown
chown_BothAlways(n, in, err) ==
    IF "uid" \notin in.valid /\ "gid" \notin in.valid THEN Nothing
    ELSE Result(toErrno(err),
                <<[op |-> "Lchown", path |-> n,
                   owner |-> FormatUint(in.Uid), group |-> FormatUint(in.Gid),
                   err |-> err]>>,
                IF err # NilErr THEN <<LogRecord("Chown failed", n, err)>>
                ELSE <<>>, NoOut)

chown(n, in, err) ==
    IF "uid" \notin in.valid /\ "gid" \notin in.valid THEN Nothing
    ELSE Result(toErrno(err),
                <<[op |-> "Lchown", path |-> n,
                   owner |-> IF "uid" \in in.valid THEN FormatUint(in.Uid) ELSE <<>>,
                   group |-> IF "gid" \in in.valid THEN FormatUint(in.Gid) ELSE <<>>,
                   err |-> err]>>,
                IF err # NilErr THEN <<LogRecord("Chown failed", n, err)>>
                ELSE <<>>, NoOut)

\* contextual.ExtendFileInfo(fi).AccessTime()
AccessTime(fi) ==
    IF fi.xfi.has THEN fi.xfi.atime
    ELSE IF fi.ext.has THEN fi.ext.atime
    ELSE IF fi.sys.has THEN fi.sys.Atim
    ELSE fi.mtime

\* node.chtimes
chtimes_IgnoreLstatError(n, in, ls, err) ==
    LET mtimeOk == "mtime" \in in.valid
        atimeOk == "atime" \in in.valid
        mt      == IF mtimeOk THEN in.Mtime ELSE ls.fi.mtime
        at      == IF atimeOk THEN in.Atime ELSE AccessTime(ls.fi)
        set     == Result(toErrno(err),
                       <<[op |-> "Chtimes", path |-> n, atime |-> at,
                          mtime |-> mt, err |-> err]>>,
                       IF err # NilErr
                       THEN <<LogRecord("Chtimes failed", n, err)>> ELSE <<>>,
                       NoOut)
    IN  IF ~mtimeOk /\ ~atimeOk THEN Nothing
        ELSE IF mtimeOk /\ atimeOk THEN set
        ELSE Then(Result(0, <<FsCall("Lstat", n, ls.err)>>, <<>>, NoOut), set)

chtimes(n, in, ls, err) ==
    LET mtimeOk == "mtime" \in in.valid
        atimeOk == "atime" \in in.valid
        restat  == ~mtimeOk \/ ~atimeOk
        mt      == IF mtimeOk THEN in.Mtime ELSE ls.fi.mtime
        at      == IF atimeOk THEN in.Atime ELSE AccessTime(ls.fi)
        set     == Result(toErrno(err),
                       <<[op |-> "Chtimes", path |-> n, atime |-> at,
                          mtime |-> mt, err |-> err]>>,
                       IF err # NilErr
                       THEN <<LogRecord("Chtimes failed", n, err)>> ELSE <<>>,
                       NoOut)
    IN  IF ~mtimeOk /\ ~atimeOk THEN Nothing
        ELSE IF ~restat THEN set
        ELSE IF ls.err # NilErr
        THEN Result(toErrno(ls.err), <<FsCall("Lstat", n, ls.err)>>,
                    <<LogRecord("Chtimes: lstat failed", n, ls.err)>>, NoOut)
        ELSE Then(Result(0, <<FsCall("Lstat", n, NilErr)>>, <<>>, NoOut), set)

\* node.truncate
truncate_Always(n, in, err) ==
    Result(toErrno(err),
           <<[op |-> "Truncate", path |-> n, size |-> in.Size, err |-> err]>>,
           IF err # NilErr THEN <<LogRecord("Truncate failed", n, err)>>
           ELSE <<>>, NoOut)

truncate(n, in, err) ==
    IF "size" \notin in.valid THEN Nothing
    ELSE Result(toErrno(err),
                <<[op |-> "Truncate", path |-> n, size |-> in.Size,
                   err |-> err]>>,
                IF err # NilErr THEN <<LogRecord("Truncate failed", n, err)>>
                ELSE <<>>, NoOut)

\* if errno := n.chmod(ctx, in); errno != 0 { return errno }
Failed_Never(r) == FALSE

Failed(r) == r.errno # 0

----------------------------------------------------------------------------
(***************************************************************************)
(* SpecNode: the engine calls one operation of a node (a node keeps no     *)
(* state between calls).  input is the request, mid what the backend       *)
(* answered last, output the result; Setattr runs as a sequence of steps,  *)
(* one per sub-change.                                                     *)
(***************************************************************************)
DirListings ==
    {<<>>,
     <<[name |-> "b", type |-> ModeDir], [name |-> "a", type |-> {}]>>,
     <<[name |-> "a", type |-> ModeSymlink], [name |-> "b", type |-> {}],
       [name |-> "c", type |-> ModeDevice \cup ModeCharDevice]>>}

InitNode ==
    /\ FhNone
    /\ input = [op |-> "none"]
    /\ mid = <<>>
    /\ output = Nothing
    /\ upc = "node"

\* the operation returns r
Returns(r) ==
    /\ output' = r
    /\ upc' = "done"
    /\ UNCHANGED fhVars

\* the operation returns r, and with it a new file handle if r carries one
ReturnsHandle(r) ==
    /\ output' = r
    /\ upc' = "done"
    /\ IF r.errno = 0
       THEN /\ file' = r.out.handle.file
            /\ offset' = r.out.handle.offset
            /\ closed' = FALSE
       ELSE UNCHANGED <<file, offset, closed>>
    /\ UNCHANGED <<mu, pc, call>>

NodeGetattr ==
    /\ upc = "node"
    /\ \E n \in NodePaths, f \in HandleKinds, hs \in StatAnswers, ls \in StatAnswers :
          /\ input' = [op |-> "Getattr", n |-> n, f |-> f]
          /\ mid' = [hs |-> hs, ls |-> ls]
          /\ Returns(GetattrResult(n, f, hs, ls))

NodeLookup ==
    /\ upc = "node"
    /\ \E n \in NodePaths, name \in Names, ls \in StatAnswers :
          /\ input' = [op |-> "Lookup", n |-> n, name |-> name]
          /\ mid' = [ls |-> ls]
          /\ Returns(LookupResult(n, name, ls))

NodeReaddir ==
    /\ upc = "node"
    /\ \E n \in NodePaths, entries \in DirListings, err \in NodeErrs :
          /\ input' = [op |-> "Readdir", n |-> n]
          /\ mid' = [entries |-> entries, err |-> err]
          /\ Returns(ReaddirResult(n, entries, err))

NodeOpen ==
    /\ upc = "node"
    /\ \E n \in NodePaths, flags \in OpenFlags, caps \in FileCaps, err \in NodeErrs :
          /\ input' = [op |-> "Open", n |-> n, flags |-> flags]
          /\ mid' = [err |-> err]
          /\ ReturnsHandle(OpenResult(n, flags, caps, err))

NodeCreate ==
    /\ upc = "node"
    /\ \E n \in NodePaths, name \in Names, flags \in OpenFlags, mode \in FuseModes,
          caps \in FileCaps, err \in NodeErrs, hs \in StatAnswers, ce \in NodeErrs :
          /\ input' = [op |-> "Create", n |-> n, name |-> name, flags |-> flags,
                       mode |-> mode]
          /\ mid' = [err |-> err, hs |-> hs, ce |-> ce]
          /\ ReturnsHandle(CreateResult(n, name, flags, mode, caps, err, hs, ce))

NodeMkdir ==
    /\ upc = "node"
    /\ \E n \in NodePaths, name \in Names, mode \in FuseModes, err \in NodeErrs,
          ls \in StatAnswers :
          /\ input' = [op |-> "Mkdir", n |-> n, name |-> name, mode |-> mode]
          /\ mid' = [err |-> err, ls |-> ls]
          /\ Returns(MkdirResult(n, name, mode, err, ls))

NodeUnlink ==
    /\ upc = "node"
    /\ \E n \in NodePaths, name \in Names, err \in NodeErrs :
          /\ input' = [op |-> "Unlink", n |-> n, name |-> name]
          /\ mid' = [err |-> err]
          /\ Returns(UnlinkResult(n, name, err))

NodeRmdir ==
    /\ upc = "node"
    /\ \E n \in NodePaths, name \in Names, err \in NodeErrs :
          /\ input' = [op |-> "Rmdir", n |-> n, name |-> name]
          /\ mid' = [err |-> err]
          /\ Returns(RmdirResult(n, name, err))

NodeSymlink ==
    /\ upc = "node"
    /\ \E n \in NodePaths, name \in Names, err \in NodeErrs, ls \in StatAnswers :
          /\ input' = [op |-> "Symlink", n |-> n, name |-> name,
                       target |-> <<"old">>]
          /\ mid' = [err |-> err, ls |-> ls]
          /\ Returns(SymlinkResult(n, <<"old">>, name, err, ls))

NodeReadlink ==
    /\ upc = "node"
    /\ \E n \in NodePaths, err \in NodeErrs :
          /\ input' = [op |-> "Readlink", n |-> n]
          /\ mid' = [err |-> err]
          /\ Returns(ReadlinkResult(n, <<"old">>, err))

NodeRename ==
    /\ upc = "node"
    /\ \E n \in NodePaths, name \in Names, newParent \in NewParents,
          newName \in Names, flags \in RenameFlags, err \in NodeErrs :
          /\ input' = [op |-> "Rename", n |-> n, name |-> name,
                       newParent |-> newParent, newName |-> newName,
                       flags |-> flags]
          /\ mid' = [err |-> err]
          /\ Returns(RenameResult(n, name, newParent, newName, flags, err))

\* node.Setattr, step by step
SetattrStart ==
    /\ upc = "node"
    /\ \E n \in NodePaths, f \in HandleKinds, in \in SetAttrIns :
          input' = [op |-> "Setattr", n |-> n, f |-> f, in |-> in]
    /\ mid' = <<>>
    /\ output' = Nothing
    /\ upc' = "chmod"
    /\ UNCHANGED fhVars

\* a sub-change answered r: Setattr returns it when it failed, else goes on
SetattrStep_Rollback(r, next) ==
    /\ output' = IF Failed(r) /\ output.log # <<>>
                 THEN Then(Then(output, r),
                           Result(r.errno,
                                  <<[op |-> "Chmod", path |-> input.n,
                                     mode |-> {}, err |-> NilErr]>>,
                                  <<>>, NoOut))
                 ELSE Then(output, r)
    /\ upc' = IF Failed(r) THEN "done" ELSE next
    /\ UNCHANGED input
    /\ UNCHANGED fhVars

SetattrStep(r, next) ==
    /\ output' = Then(output, r)
    /\ upc' = IF Failed(r) THEN "done" ELSE next
    /\ UNCHANGED input
    /\ UNCHANGED fhVars

SetattrChmod ==
    /\ upc = "chmod"
    /\ \E err \in NodeErrs :
          /\ mid' = [err |-> err]
          /\ SetattrStep(chmod(input.n, input.in, err), "chown")

SetattrChown ==
    /\ upc = "chown"
    /\ \E err \in NodeErrs :
          /\ mid' = [err |-> err]
          /\ SetattrStep(chown(input.n, input.in, err), "chtimes")

SetattrChtimes ==
    /\ upc = "chtimes"
    /\ \E ls \in StatAnswers, err \in NodeErrs :
          /\ mid' = [ls |-> ls, err |-> err]
          /\ SetattrStep(chtimes(input.n, input.in, ls, err), "truncate")

SetattrTruncate ==
    /\ upc = "truncate"
    /\ \E err \in NodeErrs :
          /\ mid' = [err |-> err]
          /\ SetattrStep(truncate(input.n, input.in, err), "getattr")

\* return n.Getattr(ctx, f, out)
SetattrGetattr ==
    /\ upc = "getattr"
    /\ \E hs \in StatAnswers, ls \in StatAnswers :
          /\ mid' = [hs |-> hs, ls |-> ls]
          /\ output' = Then(output, GetattrResult(input.n, input.f, hs, ls))
    /\ upc' = "done"
    /\ UNCHANGED input
    /\ UNCHANGED fhVars

NextNode ==
    \/ NodeGetattr \/ NodeLookup \/ NodeReaddir \/ NodeOpen \/ NodeCreate
    \/ NodeMkdir \/ NodeUnlink \/ NodeRmdir \/ NodeSymlink \/ NodeReadlink
    \/ NodeRename
    \/ SetattrStart \/ SetattrChmod \/ SetattrChown \/ SetattrChtimes
    \/ SetattrTruncate \/ SetattrGetattr

SpecNode == InitNode /\ [][NextNode]_vars

----------------------------------------------------------------------------
(***************************************************************************)
(* Properties of the translators.                                          *)
(***************************************************************************)

\* the pattern table of the Error Translator, in priority order
ErrnoPatterns ==
    <<<<ErrNotExist, ENOENT>>, <<ErrPermission, EPERM>>, <<ErrInvalid, EINVAL>>,
      <<ErrExist, EEXIST>>, <<ErrUnsupported, ENOSYS>>>>

Carries(err, e) == \E i \in 1..Len(err) : err[i] = e

CarriesCode(err) == \E i \in 1..Len(err) : err[i].kind = "Errno"

FirstCode(err) ==
    LET i == CHOOSE k \in 1..Len(err) :
                 /\ err[k].kind = "Errno"
                 /\ \A j \in 1..(k - 1) : err[j].kind # "Errno"
    IN  err[i].code

MatchedPatterns(err) ==
    {k \in 1..Len(ErrnoPatterns) : Carries(err, ErrnoPatterns[k][1])}

ErrnoReference(err) ==
    IF err = NilErr THEN 0
    ELSE IF CarriesCode(err) THEN FirstCode(err)
    ELSE IF MatchedPatterns(err) # {}
    THEN ErrnoPatterns[Min(MatchedPatterns(err))][2]
    ELSE EIO

\* C1: toErrno returns the reference code for every failure: 0 for nil, the
\* carried system error code unchanged before any pattern is tried, else
\* the code of the first matching pattern in the order not-found,
\* permission, invalid, exists, unsupported, else EIO; and the call changes
\* nothing but its result.
C1_ToErrnoReference ==
    [][CallToErrno =>
          /\ output' = ErrnoReference(input)
          /\ input' = input
          /\ mid' = mid
          /\ UNCHANGED fhVars]_vars

\* a failure that matches the not-found pattern and carries EACCES behind it
C1_Witness ==
    /\ upc = "done"
    /\ input = <<ErrNotExist, Errno(EACCES)>>
    /\ output = EACCES

FileTypeMask ==
    ModeDir \cup ModeSymlink \cup ModeDevice \cup ModeNamedPipe
    \cup ModeSocket \cup ModeCharDevice

\* the word is one of the 7 file types of its encoding
OfSevenTypes(w) ==
    \/ w.enc = "fuse" /\ (w.m \cap S_IFMT) \in FuseTypes
    \/ w.enc = "file" /\ (w.m \cap FileTypeMask) \in FileTypes

\* C2: for each of the 7 file types, each setuid/setgid/sticky combination
\* and any permission bits, converting a mode word to the other encoding
\* and back gives the word again, in both directions.
C2_ModeRoundTrip ==
    (upc = "done" /\ OfSevenTypes(input)) => output = input.m

C2_Witness ==
    /\ upc = "done"
    /\ input.enc = "file"
    /\ input.m = ModeDevice \cup ModeCharDevice \cup ModeSticky \cup ModeSetgid
                 \cup Word(420)
    /\ mid = S_IFCHR \cup S_ISVTX \cup S_ISGID \cup Word(420)
    /\ output = input.m

\* C3: statToAttr on a directory yields a link count of at least 2,
\* whatever Extended Metadata and Raw System Stat the source exposes and
\* whatever link count the raw stat reports.
C3_DirNlinkAtLeast2 ==
    (upc = "done" /\ IsDir(input.fi)) => output.attr.Nlink >= 2

\* a directory whose raw stat reports 0 links
C3_Witness ==
    /\ upc = "done"
    /\ IsDir(input.fi)
    /\ input.fi.sys.has /\ input.fi.sys.Nlink = 0
    /\ ~IsXFI(input.fi)
    /\ output.attr.Nlink = 2

\* the source exposes neither Extended Metadata nor a Raw System Stat:
\* it is no fsx.FileInfo, its Sys() is no Stat_t, and the view that
\* fsx.ExtendFileInfo makes of it, if any, has no access or change time of
\* its own (it repeats the modify time)
LacksExtendedAndStat(fi) ==
    /\ ~IsXFI(fi)
    /\ ~fi.sys.has
    /\ fi.ext.has => (fi.ext.atime = fi.mtime /\ fi.ext.ctime = fi.mtime)

\* C4: on a source that exposes neither Extended Metadata nor a Raw System
\* Stat, access time and change time equal the modify time (seconds and
\* nanoseconds), the block size is 4096 and the link count of a
\* non-directory is 1.
C4_FallbackDefaults ==
    (upc = "done" /\ LacksExtendedAndStat(input.fi)) =>
        /\ output.attr.Mtime = input.fi.mtime[1]
        /\ output.attr.Mtimensec = input.fi.mtime[2]
        /\ output.attr.Atime = output.attr.Mtime
        /\ output.attr.Atimensec = output.attr.Mtimensec
        /\ output.attr.Ctime = output.attr.Mtime
        /\ output.attr.Ctimensec = output.attr.Mtimensec
        /\ output.attr.Blksize = 4096
        /\ ~IsDir(input.fi) => output.attr.Nlink = 1

\* a plain file with nothing but the basic metadata, filled into a reused
\* record
C4_Witness ==
    /\ upc = "done"
    /\ ~IsXFI(input.fi) /\ ~input.fi.sys.has /\ ~input.fi.ext.has
    /\ ~IsDir(input.fi)
    /\ input.out = UsedAttr
    /\ output.attr.Ctime = 300 /\ output.attr.Ctimensec = 30
    /\ output.attr.Nlink = 1

\* the Extended Metadata that fillFromXFI read, if it ran
UsedXFI(fi) ==
    IF IsXFI(fi) THEN fi.xfi
    ELSE IF ~fi.sys.has /\ fi.ext.has THEN fi.ext
    ELSE NoXFI

\* the uint32 id is the number v that Atoi returned
IdIs(id, v) ==
    /\ ~v.mag.wide
    /\ ~v.neg \/ (v.mag.hi = 0 /\ v.mag.lo = 0)
    /\ id = LimbWord(v.mag.hi, v.mag.lo)

\* C5: an owner or group string that is a decimal number resolves to that
\* numeric id without any account-name lookup; a string that is neither
\* decimal nor a known account/group name leaves the id of the returned
\* record at 0.
C5_OwnerGroupResolution ==
    (upc = "done" /\ UsedXFI(input.fi).has) =>
        LET x == UsedXFI(input.fi)
        IN  /\ Atoi(x.owner).ok =>
                /\ IdIs(output.attr.Uid, Atoi(x.owner))
                /\ output.userLookups = <<>>
            /\ Atoi(x.group).ok =>
                /\ IdIs(output.attr.Gid, Atoi(x.group))
                /\ output.groupLookups = <<>>
            /\ (~Atoi(x.owner).ok /\ x.owner \notin DOMAIN Accounts) =>
                output.attr.Uid = Word(0)
            /\ (~Atoi(x.group).ok /\ x.group \notin DOMAIN Groups) =>
                output.attr.Gid = Word(0)

----------------------------------------------------------------------------
(***************************************************************************)
(* Properties of the file handle, stated of the call of caller 1: what it  *)
(* was asked (op, off, len), the tracked offset it found (pre), the        *)
(* backend calls it issued (log) and what it returned (ret).               *)
(***************************************************************************)

\* the random-access capability that serves the call
RandomAccess(c) == IF c.op = "Read" THEN file.readerAt ELSE file.writerAt

RandomOp(c) == IF c.op = "Read" THEN "ReadAt" ELSE "WriteAt"

\* the failure signals "unsupported operation"
SignalsUnsupported(err) ==
    \E i \in 1..Len(err) :
        \/ err[i] = ErrUnsupported
        \/ err[i].kind = "Errno" /\ err[i].code \in {ENOSYS, ENOTSUP}

\* what the handler has to return when backend call bc settles the call
FinalResult(c, bc) ==
    IF c.op = "Write"
    THEN [errno |-> ErrnoReference(bc.err), n |-> bc.n, data |-> NoResult]
    ELSE IF bc.err \notin {NilErr, <<EOF>>}
    THEN [errno |-> ErrnoReference(bc.err), n |-> 0, data |-> NoResult]
    ELSE [errno |-> 0, n |-> bc.n,
          data |-> [nil |-> FALSE, n |-> bc.n, b |-> bc.buf.b]]

\* C6: tiered dispatch, for Read and for Write: a seek is attempted only
\* when the backend lacks the random-access capability or the random-access
\* attempt failed with "unsupported operation"; every other random-access
\* outcome is the final result of the call, with no seek and no sequential
\* read or write; a successful random-access Read returns exactly the bytes
\* the backend produced, with a single backend call.
C6_TieredDispatch ==
    LET c == call[1] IN
    c.op \in {"Read", "Write"} =>
        /\ \A i \in 1..Len(c.log) :
              c.log[i].op = "Seek" =>
                 \/ i = 1 /\ ~RandomAccess(c)
                 \/ /\ i = 2
                    /\ c.log[1].op = RandomOp(c)
                    /\ SignalsUnsupported(c.log[1].err)
        /\ \A i \in 1..Len(c.log) :
              (c.log[i].op \in {"ReadAt", "WriteAt"}
               /\ ~SignalsUnsupported(c.log[i].err)) =>
                 /\ Len(c.log) = 1
                 /\ c.log[1].op = RandomOp(c)
                 /\ c.log[1].arg = c.off
                 /\ pc[1] = "done"
                 /\ c.ret = FinalResult(c, c.log[1])

\* a random-access Read at offset 0 that succeeded: one backend call, its
\* bytes returned
C6_Witness ==
    LET c == call[1] IN
    /\ pc[1] = "done" /\ c.op = "Read" /\ c.off = 0 /\ c.len = MaxBuf
    /\ Len(c.log) = 1
    /\ c.log[1] = BackendCall("ReadAt", 0, Bytes(MaxBuf, 9), MaxBuf, NilErr)
    /\ c.ret = [errno |-> 0, n |-> MaxBuf,
                data |-> [nil |-> FALSE, n |-> MaxBuf, b |-> 9]]

\* the bytes the first k backend calls of a log transferred
RECURSIVE Total(_, _)
Total(log, k) == IF k = 0 THEN 0 ELSE log[k].n + Total(log, k - 1)

\* the call runs in the sequential tier, ahead of the tracked offset it found
ForwardGap(c, op) ==
    /\ c.op = op
    /\ ~RandomAccess(c) /\ ~file.seeker
    /\ pc[1] \notin {"idle", "RLock", "WLock"}
    /\ c.off > c.pre

\* C7: a sequential-fallback Read with a forward gap, off > t: the backend
\* is only read; the reads before the payload read discard, and never take
\* more than what is left of off - t; the payload read is issued once, when
\* exactly off - t bytes have been discarded, into the caller's buffer, and
\* its n bytes are returned; when it does not fail the tracked offset ends
\* at off + n.
C7_ReadForwardGap ==
    LET c   == call[1]
        gap == c.off - c.pre
    IN
    ForwardGap(c, "Read") =>
        /\ \A i \in 1..Len(c.log) :
              /\ c.log[i].op = "Read"
              /\ Total(c.log, i - 1) < gap =>
                    c.log[i].buf.n <= gap - Total(c.log, i - 1)
              /\ Total(c.log, i - 1) >= gap =>
                    /\ Total(c.log, i - 1) = gap
                    /\ i = Len(c.log)
                    /\ c.log[i].buf.n = c.len
                    /\ pc[1] = "done"
                    /\ c.ret = FinalResult(c, c.log[i])
                    /\ c.log[i].err \in {NilErr, <<EOF>>} =>
                          offset = c.off + c.log[i].n
        /\ pc[1] = "RRead" => Total(c.log, Len(c.log)) = gap /\ offset = c.off
        /\ (pc[1] = "done" /\ c.ret.n > 0) =>
              Total(c.log, Len(c.log) - 1) = gap

\* from t = 0, Read(offset = Gap): a discard read of Gap bytes, then the
\* payload read; the tracked offset ends at Gap + the payload's length
C7_Witness ==
    LET c == call[1] IN
    /\ pc[1] = "done" /\ c.op = "Read" /\ c.pre = 0 /\ c.off = Gap
    /\ ~file.readerAt /\ ~file.seeker
    /\ c.log = <<BackendCall("Read", 0, Bytes(Gap, 0), Gap, NilErr),
                 BackendCall("Read", 0, Bytes(MaxBuf, 7), MaxBuf, NilErr)>>
    /\ c.ret.errno = 0 /\ c.ret.data = [nil |-> FALSE, n |-> MaxBuf, b |-> 7]
    /\ offset = Gap + MaxBuf

\* C8: a backward request on a non-seekable handle, for Read and for Write:
\* with neither random access nor seek and off less than the tracked offset,
\* the call fails with ENOSYS, issues no backend call and leaves the tracked
\* offset unchanged.
C8_BackwardNotImplemented ==
    LET c == call[1] IN
    (/\ c.op \in {"Read", "Write"}
     /\ ~RandomAccess(c) /\ ~file.seeker
     /\ pc[1] \notin {"idle", "RLock", "WLock"}
     /\ c.off < c.pre) =>
        /\ c.log = <<>>
        /\ offset = c.pre
        /\ pc[1] = "done" =>
              c.ret = [errno |-> ENOSYS, n |-> 0, data |-> NoResult]

\* the tracked offset has advanced to 2 * Gap by sequential calls, and a
\* Read(offset = Gap) has failed
C8_Witness ==
    LET c == call[1] IN
    /\ pc[1] = "done" /\ c.op = "Read" /\ c.pre = 2 * Gap /\ c.off = Gap
    /\ ~file.readerAt /\ ~file.writerAt /\ ~file.seeker
    /\ c.ret.errno = ENOSYS /\ c.log = <<>>
    /\ offset = 2 * Gap

\* C9: a sequential-fallback Write with a forward gap, off > t: the backend
\* is only written; the writes before the payload carry zero bytes only, in
\* chunks of at most 4096 bytes that never exceed what is left of off - t;
\* the payload is written once, when exactly off - t zero bytes have been
\* written; when it does not fail the tracked offset ends at off + n, n the
\* number of payload bytes written.
C9_WriteForwardGap ==
    LET c   == call[1]
        gap == c.off - c.pre
    IN
    ForwardGap(c, "Write") =>
        /\ \A i \in 1..Len(c.log) :
              /\ c.log[i].op = "Write"
              /\ Total(c.log, i - 1) < gap =>
                    /\ c.log[i].buf.b = 0
                    /\ c.log[i].buf.n <= ZeroChunk
                    /\ c.log[i].buf.n <= gap - Total(c.log, i - 1)
              /\ Total(c.log, i - 1) >= gap =>
                    /\ Total(c.log, i - 1) = gap
                    /\ i = Len(c.log)
                    /\ c.log[i].buf = Payload(c)
                    /\ pc[1] = "done"
                    /\ c.ret = FinalResult(c, c.log[i])
                    /\ c.log[i].err = NilErr =>
                          offset = c.off + c.log[i].n
        /\ pc[1] = "WWrite" => Total(c.log, Len(c.log)) = gap /\ offset = c.off
        /\ (pc[1] = "done" /\ c.ret.n > 0) =>
              Total(c.log, Len(c.log) - 1) = gap

\* from t = 0, Write(offset = 4096 + Gap): a chunk of 4096 zeros, a chunk of
\* Gap zeros, then the payload
C9_Witness ==
    LET c == call[1] IN
    /\ pc[1] = "done" /\ c.op = "Write" /\ c.pre = 0 /\ c.off = ZeroChunk + Gap
    /\ ~file.writerAt /\ ~file.seeker
    /\ c.log = <<BackendCall("Write", 0, Bytes(ZeroChunk, 0), ZeroChunk, NilErr),
                 BackendCall("Write", 0, Bytes(Gap, 0), Gap, NilErr),
                 BackendCall("Write", 0, Bytes(MaxBuf, 7), MaxBuf, NilErr)>>
    /\ c.ret = [errno |-> 0, n |-> MaxBuf, data |-> NoResult]
    /\ offset = ZeroChunk + Gap + MaxBuf

\* C10: the tracked offset of a file handle is zero when Open or Create has
\* made the handle, and no step of a Read, Write, Flush or Release on it
\* decreases it, whether the call succeeds or fails.
C10_OffsetMonotone ==
    [][/\ (~file.open /\ file'.open) => offset' = 0
       /\ offset' >= offset]_vars

\* a Write that failed in its padding has left the tracked offset advanced,
\* and the handle has been released after it
C10_Witness ==
    /\ closed /\ pc[1] = "done" /\ call[1].op = "Release"
    /\ call[1].ret.errno = EIO
    /\ offset = ZeroChunk - 1

----------------------------------------------------------------------------
(***************************************************************************)
(* Properties of concurrent callers.                                       *)
(***************************************************************************)

\* caller p is inside a Read or Write: past fh.mu.Lock(), not yet returned
InCall(p) == pc[p] \notin {"idle", "done", "RLock", "WLock"}

\* the step issues a backend call of a Read or Write of caller p
IssuesCall(p) ==
    /\ call'[p].op \in {"Read", "Write"}
    /\ Len(call'[p].log) > 0
    /\ call'[p].log # call[p].log

\* C11: Read and Write calls on one file handle are mutually exclusive: a
\* caller issues the backend calls of its Read or Write, and updates the
\* tracked offset, only inside the call, holding the lock from its first
\* step to its return, and no two callers are inside a call at once; so all
\* backend calls and offset updates of one call complete before any backend
\* call of another call begins.
C11_MutualExclusion ==
    [][\A p \in Callers :
          /\ IssuesCall(p) =>
                /\ InCall(p) /\ mu = p
                /\ \A q \in Callers \ {p} : ~InCall(q) /\ call'[q] = call[q]
          /\ (InCall(p) /\ pc'[p] # pc[p]) => mu = p
          /\ (InCall(p) /\ InCall(p)') => mu' = p
          /\ InCall(p)' => \A q \in Callers \ {p} : ~InCall(q)'
          /\ offset' # offset => \E q \in Callers : InCall(q) /\ mu = q]_vars

\* caller 1 is between its seek and the read that follows it while caller 2
\* waits for the lock
C11_Witness ==
    /\ pc[1] = "RSeekRead" /\ mu = 1
    /\ Len(call[1].log) = 1 /\ call[1].log[1].op = "Seek"
    /\ pc[2] = "WLock"
    /\ call[2].off = call[1].off

----------------------------------------------------------------------------
(***************************************************************************)
(* Properties of the path node.                                            *)
(***************************************************************************)

\* the backend calls of the sub-changes of Setattr
SubChangeOps == {"Chmod", "Lchown", "Lstat", "Chtimes", "Truncate"}

\* C12: Setattr stops at the first failing sub-change: no backend call
\* follows the failed one (no later sub-change, no final attribute query)
\* and the call returns the translated error of that sub-change.
C12_SetattrStopsAtFirstFailure ==
    input.op = "Setattr" =>
        \A i \in 1..Len(output.log) :
            (output.log[i].op \in SubChangeOps /\ output.log[i].err # NilErr) =>
                /\ i = Len(output.log)
                /\ upc = "done"
                /\ output.errno = ErrnoReference(output.log[i].err)
                /\ output.errno # 0
                /\ output.out = NoOut

\* mode and size requested, the mode change fails with an unrecognized
\* error: truncate is never called, the call reports EIO
C12_Witness ==
    /\ upc = "done" /\ input.op = "Setattr"
    /\ input.in.valid = {"mode", "size"}
    /\ Len(output.log) = 1
    /\ output.log[1].op = "Chmod" /\ output.log[1].err = <<Generic>>
    /\ output.errno = EIO

\* C13: Rename rejects before touching the backend: any nonzero flags give
\* ENOSYS whatever the destination parent is; flags zero and a destination
\* parent that is no node of this layer give EXDEV; neither issues a
\* backend call.  Otherwise exactly one backend rename is issued, from
\* join(parent path, name) to join(destination parent path, new name), and
\* its translated outcome is returned.
C13_RenameRejects ==
    (input.op = "Rename" /\ upc = "done") =>
        IF input.flags # 0
        THEN output.errno = ENOSYS /\ output.log = <<>>
        ELSE IF ~input.newParent.isNode
        THEN output.errno = EXDEV /\ output.log = <<>>
        ELSE /\ output.log =
                  <<[op |-> "Rename", path |-> input.n \o <<input.name>>,
                     to |-> input.newParent.path \o <<input.newName>>,
                     err |-> mid.err]>>
             /\ output.errno = ErrnoReference(mid.err)

\* nonzero flags together with a destination parent of another type
C13_Witness ==
    /\ upc = "done" /\ input.op = "Rename"
    /\ input.flags = 1 /\ ~input.newParent.isNode
    /\ output.errno = ENOSYS /\ output.log = <<>>

\* the closes of the opened file in a log
Closes(log) == {i \in 1..Len(log) : log[i].op = "File.Close"}

\* C14: Create never leaks an open backend file: after the backend open
\* succeeded, either the stat succeeds and the file is returned wrapped in a
\* new file handle, still open (no close issued), or the stat fails and the
\* file is closed exactly once, after the stat, and the translated stat
\* failure is returned with no handle and no child node.
C14_CreateNeverLeaks ==
    (input.op = "Create" /\ upc = "done") =>
        IF mid.err # NilErr
        THEN /\ Closes(output.log) = {} /\ output.out = NoOut /\ ~file.open
             /\ output.errno = ErrnoReference(mid.err)
        ELSE IF mid.hs.err = NilErr
        THEN /\ Closes(output.log) = {}
             /\ output.errno = 0
             /\ output.out.kind = "created"
             /\ output.out.handle.file.open
             /\ file = output.out.handle.file /\ offset = 0 /\ ~closed
        ELSE /\ Len(output.log) = 3
             /\ output.log[2].op = "File.Stat"
             /\ Closes(output.log) = {3}
             /\ output.errno = ErrnoReference(mid.hs.err)
             /\ output.out = NoOut
             /\ ~file.open

\* the open succeeded, the stat failed: the file is closed, EIO returned
C14_Witness ==
    /\ upc = "done" /\ input.op = "Create"
    /\ mid.err = NilErr /\ mid.hs.err = <<Generic>>
    /\ Closes(output.log) = {3}
    /\ output.errno = EIO /\ output.out = NoOut

----------------------------------------------------------------------------
(***************************************************************************)
(* Properties of Flush and Release.                                        *)
(***************************************************************************)

\* the step is a call of op by caller 1, from entry to return
Performs(op) == call'[1].op = op /\ pc'[1] = "done" /\ call'[1] # call[1]

\* C15: Release issues exactly one close on the handle's backend file and
\* returns the translated close failure, or success when the close
\* succeeds; Flush returns success without issuing any backend call and
\* without changing the tracked offset.
C15_ReleaseAndFlush ==
    [][/\ Performs("Release") =>
             /\ Len(call'[1].log) = 1
             /\ call'[1].log[1].op = "Close"
             /\ call'[1].ret.errno = ErrnoReference(call'[1].log[1].err)
             /\ closed'
       /\ Performs("Flush") =>
             /\ call'[1].log = <<>>
             /\ call'[1].ret.errno = 0
             /\ offset' = offset
             /\ closed' = closed /\ file' = file]_vars

\* a Release whose close failed, on a handle whose offset had advanced
C15_Witness ==
    /\ pc[1] = "done" /\ call[1].op = "Release" /\ closed
    /\ call[1].log = <<BackendCall("Close", 0, Bytes(0, 0), 0, <<Generic>>)>>
    /\ call[1].ret.errno = EIO
    /\ offset = Gap

----------------------------------------------------------------------------
(***************************************************************************)
(* Properties of the node's logging, listing and attribute query.          *)
(***************************************************************************)

\* the failure is a not-found
NotFound(err) == err # NilErr /\ ErrnoReference(err) = ENOENT

\* C16: every backend-call failure except not-found is logged: whenever a
\* backend call of a node operation (a stat on an open file and a close
\* included) returns a failure other than not-found, a log record with the
\* path and the error is emitted.
C16_FailuresLogged ==
    \A i \in 1..Len(output.log) :
        (output.log[i].err # NilErr /\ ~NotFound(output.log[i].err)) =>
            \E j \in 1..Len(output.logged) :
                /\ output.logged[j].err = output.log[i].err
                /\ output.logged[j].path = output.log[i].path

\* C17: Readdir returns one entry per backend entry, in the backend's
\* order, each with the backend entry's name and the S_IF* type bits of the
\* backend entry's type, as toFuseMode produces them; a listing failure
\* returns its translated code and no stream.
C17_ReaddirEntries ==
    (input.op = "Readdir" /\ upc = "done") =>
        IF mid.err # NilErr
        THEN output.errno = ErrnoReference(mid.err) /\ output.out = NoOut
        ELSE /\ output.errno = 0
             /\ Len(output.out.r) = Len(mid.entries)
             /\ \A i \in 1..Len(mid.entries) :
                   /\ output.out.r[i].Name = mid.entries[i].name
                   /\ output.out.r[i].Mode = toFuseMode(mid.entries[i].type) \cap S_IFMT

\* C18: attribute query source selection: with a file handle of this layer
\* whose stat succeeds, the attributes are those of that stat and no stat by
\* path is issued; with no such handle, or when the handle's stat fails,
\* the attributes are those of a stat of the node's path, whose failure is
\* returned translated.
C18_GetattrSource ==
    (input.op = "Getattr" /\ upc = "done") =>
        LET paths == {i \in 1..Len(output.log) : output.log[i].op = "Lstat"}
        IN  IF input.f = "fileHandle" /\ mid.hs.err = NilErr
            THEN /\ output.errno = 0
                 /\ output.out.attr = statToAttr(mid.hs.fi, ZeroAttr).attr
                 /\ paths = {}
            ELSE /\ paths = {Len(output.log)}
                 /\ output.log[Len(output.log)].path = input.n
                 /\ IF mid.ls.err = NilErr
                    THEN /\ output.errno = 0
                         /\ output.out.attr = statToAttr(mid.ls.fi, ZeroAttr).attr
                    ELSE /\ output.errno = ErrnoReference(mid.ls.err)
                         /\ output.out = NoOut

\* a handle whose stat succeeds: its attributes are returned although the
\* path would have answered others
C18_Witness ==
    /\ upc = "done" /\ input.op = "Getattr" /\ input.f = "fileHandle"
    /\ mid.hs = [fi |-> FileInfoFile, err |-> NilErr]
    /\ mid.ls = [fi |-> FileInfoDir, err |-> NilErr]
    /\ Len(output.log) = 1 /\ output.log[1].op = "File.Stat"
    /\ output.out.attr.Size = 123

----------------------------------------------------------------------------
(***************************************************************************)
(* Properties of the attribute merge and of Setattr's order.               *)
(***************************************************************************)

\* C19: merge precedence when the source exposes both Extended Metadata and
\* a Raw System Stat: access and change times and uid/gid come from the
\* Extended Metadata, never from the raw stat; inode, device id, block size
\* and block count come from the raw stat; the raw stat's link count
\* replaces the default 1 only when it is positive (a raw link count of 0
\* on a non-directory yields 1).
C19_MergePrecedence ==
    (upc = "done" /\ input.fi.xfi.has /\ input.fi.sys.has) =>
        LET x == input.fi.xfi
            s == input.fi.sys
            a == output.attr
            links == IF s.Nlink > 0 THEN s.Nlink ELSE 1
        IN  /\ <<a.Atime, a.Atimensec>> = x.atime
            /\ <<a.Ctime, a.Ctimensec>> = x.ctime
            /\ a.Uid # s.Uid /\ a.Gid # s.Gid
            /\ x.owner = Str1000 => a.Uid = Word(1000)
            /\ x.owner = StrAlice => a.Uid = Word(1001)
            /\ x.group = Str1000 => a.Gid = Word(1000)
            /\ x.group = StrStaff => a.Gid = Word(50)
            /\ a.Ino = s.Ino /\ a.Rdev = s.Rdev
            /\ a.Blksize = s.Blksize /\ a.Blocks = s.Blocks
            /\ a.Nlink = IF IsDir(input.fi) /\ links < 2 THEN 2 ELSE links

\* a regular file with Extended Metadata and a raw stat whose link count is 0
C19_Witness ==
    /\ upc = "done" /\ input.fi.xfi.has /\ input.fi.sys.has
    /\ ~IsDir(input.fi) /\ input.fi.sys.Nlink = 0
    /\ input.fi.xfi.owner = StrAlice /\ input.fi.xfi.atime = TimeA
    /\ output.attr.Nlink = 1 /\ output.attr.Ino = 123
    /\ output.attr.Uid = Word(1001) /\ output.attr.Atime = 100

\* the backend calls the sub-changes of a request issue when none fails
ExpectedCalls(in) ==
    (IF "mode" \in in.valid THEN <<"Chmod">> ELSE <<>>)
    \o (IF in.valid \cap {"uid", "gid"} # {} THEN <<"Lchown">> ELSE <<>>)
    \o (IF Cardinality(in.valid \cap {"mtime", "atime"}) = 1
        THEN <<"Lstat", "Chtimes">>
        ELSE IF Cardinality(in.valid \cap {"mtime", "atime"}) = 2
        THEN <<"Chtimes">> ELSE <<>>)
    \o (IF "size" \in in.valid THEN <<"Truncate">> ELSE <<>>)

IsPrefix(s, t) == Len(s) <= Len(t) /\ s = SubSeq(t, 1, Len(s))

\* the backend calls of one attribute query with handle f
QueryCalls(f) ==
    IF f = "fileHandle" THEN {<<"File.Stat">>, <<"File.Stat", "Lstat">>}
    ELSE {<<"Lstat">>}

\* C20: Setattr ordering: the backend calls of one request are issued in
\* the order chmod, change-owner-group, (re-stat for a missing timestamp,)
\* change-times, truncate, each present only if its field was requested and
\* at most once; when all requested sub-changes succeed (also when none was
\* requested) the call ends with exactly one attribute query, whose result
\* and error code are the result of the call.
C20_SetattrOrder ==
    input.op = "Setattr" =>
        LET log   == output.log
            ops   == [i \in 1..Len(log) |-> log[i].op]
            E     == ExpectedCalls(input.in)
            clean == \A i \in 1..Len(log) :
                        i <= Len(E) => log[i].err = NilErr
        IN  /\ IsPrefix(ops, E) \/ IsPrefix(E, ops)
            /\ upc # "done" => IsPrefix(ops, E) /\ clean
            /\ (upc = "done" /\ ~clean) => IsPrefix(ops, E)
            /\ (upc = "done" /\ clean) =>
                  /\ IsPrefix(E, ops)
                  /\ SubSeq(ops, Len(E) + 1, Len(ops)) \in QueryCalls(input.f)
                  /\ LET q == GetattrResult(input.n, input.f, mid.hs, mid.ls)
                     IN  /\ output.errno = q.errno
                         /\ output.out = q.out
                         /\ SubSeq(log, Len(E) + 1, Len(log)) = q.log
                  /\ output.errno = ErrnoReference(log[Len(log)].err)

\* every field but the access time requested, every sub-change succeeds
C20_Witness ==
    /\ upc = "done" /\ input.op = "Setattr" /\ input.f = "nil"
    /\ input.in.valid = SetAttrFields \ {"atime"}
    /\ [i \in 1..Len(output.log) |-> output.log[i].op]
          = <<"Chmod", "Lchown", "Lstat", "Chtimes", "Truncate", "Lstat">>
    /\ output.errno = 0 /\ output.out.kind = "attr"

\* s is the decimal string of the unsigned v: digits only, no leading zero
\* (but "0" itself), of value v
IsDecimalOf(s, v) ==
    /\ s # <<>>
    /\ \A i \in 1..Len(s) : IsDigit(s[i])
    /\ Len(s) > 1 => s[1] # "0"
    /\ DecimalValue(s) = [hi |-> v \div Limb, lo |-> v % Limb, wide |-> FALSE]

\* the positions of the backend calls op in a log
CallsOf(log, op) == {i \in 1..Len(log) : log[i].op = op}

\* C21: ownership change in Setattr: when uid or gid is requested (and the
\* mode change before it did not fail) exactly one Lchown call is issued,
\* on the node's path, each requested id as its decimal string and each
\* id not requested as the empty string; when neither is requested no
\* Lchown call is issued.
C21_ChownCall ==
    input.op = "Setattr" =>
        LET in      == input.in
            calls   == CallsOf(output.log, "Lchown")
            want    == in.valid \cap {"uid", "gid"} # {}
            reached == /\ upc \notin {"chmod", "chown"}
                       /\ \A i \in CallsOf(output.log, "Chmod") :
                             output.log[i].err = NilErr
        IN  /\ ~want => calls = {}
            /\ Cardinality(calls) <= 1
            /\ (want /\ reached) => Cardinality(calls) = 1
            /\ \A i \in calls :
                  LET c == output.log[i]
                  IN  /\ c.path = input.n
                      /\ IF "uid" \in in.valid THEN IsDecimalOf(c.owner, in.Uid)
                         ELSE c.owner = <<>>
                      /\ IF "gid" \in in.valid THEN IsDecimalOf(c.group, in.Gid)
                         ELSE c.group = <<>>

\* only the uid requested, and it is root's: owner "0", group empty
C21_Witness ==
    /\ upc = "done" /\ input.op = "Setattr"
    /\ input.in.valid = {"uid"} /\ input.in.Uid = 0
    /\ Cardinality(CallsOf(output.log, "Lchown")) = 1
    /\ output.log[1].op = "Lchown"
    /\ output.log[1].owner = <<"0">> /\ output.log[1].group = <<>>
    /\ output.errno = 0

\* the operations of the backend calls of a log
OpsOf(log) == [i \in 1..Len(log) |-> log[i].op]

\* C22: timestamp change in Setattr.  The step that runs chtimes appends to
\* the backend calls: nothing when no time is requested; the one Chtimes
\* call with both times as requested, and no re-stat, when both are
\* requested; when exactly one is requested an Lstat of the path and then,
\* if it succeeded, the Chtimes call with the requested time as requested
\* and the missing one from that stat (modify time of the file info, access
\* time of its extended view); if the Lstat failed no Chtimes call is
\* issued and Setattr returns the translated stat failure.
C22_ChtimesRestat ==
    [][upc = "chtimes" =>
        LET in    == input.in
            ls    == mid'.ls
            new   == SubSeq(output'.log, Len(output.log) + 1, Len(output'.log))
            times == in.valid \cap {"mtime", "atime"}
        IN  /\ times = {} => new = <<>>
            /\ times = {"mtime", "atime"} =>
                  /\ OpsOf(new) = <<"Chtimes">>
                  /\ new[1].path = input.n
                  /\ new[1].mtime = in.Mtime /\ new[1].atime = in.Atime
            /\ (Cardinality(times) = 1 /\ ls.err = NilErr) =>
                  /\ OpsOf(new) = <<"Lstat", "Chtimes">>
                  /\ new[1].path = input.n /\ new[1].err = NilErr
                  /\ new[2].path = input.n
                  /\ new[2].mtime = IF "mtime" \in times THEN in.Mtime
                                    ELSE ls.fi.mtime
                  /\ new[2].atime = IF "atime" \in times THEN in.Atime
                                    ELSE AccessTime(ls.fi)
            /\ (Cardinality(times) = 1 /\ ls.err # NilErr) =>
                  /\ OpsOf(new) = <<"Lstat">>
                  /\ new[1].path = input.n /\ new[1].err = ls.err
                  /\ output'.errno = ErrnoReference(ls.err)
                  /\ output'.errno # 0
                  /\ upc' = "done"
    ]_vars

\* only the modify time requested; the re-stat answers a directory whose
\* raw stat carries an access time: Chtimes gets that and the requested
\* modify time
C22_Witness ==
    /\ upc = "truncate" /\ input.op = "Setattr"
    /\ input.in.valid \cap {"mtime", "atime"} = {"mtime"}
    /\ mid.ls.err = NilErr /\ mid.ls.fi = FileInfoDir /\ mid.err = NilErr
    /\ Len(output.log) >= 2
    /\ output.log[Len(output.log) - 1].op = "Lstat"
    /\ output.log[Len(output.log)].op = "Chtimes"
    /\ output.log[Len(output.log)].mtime = <<1000, 0>>
    /\ output.log[Len(output.log)].atime = <<110, 11>>

----------------------------------------------------------------------------
(***************************************************************************)
(* Further properties of the file handle.                                  *)
(***************************************************************************)

\* C23: end-of-stream while discarding: a sequential-fallback Read with a
\* forward gap off - t whose backend answers end-of-stream before off - t
\* bytes have been discarded returns success with zero bytes, has issued
\* discard reads only (no payload read), and leaves the tracked offset at
\* t plus the number of bytes actually discarded.
C23_DiscardEndOfStream ==
    LET c   == call[1]
        gap == c.off - c.pre
        k   == Len(c.log)
    IN
    (/\ ForwardGap(c, "Read")
     /\ k > 0
     /\ c.log[k].err = <<EOF>>
     /\ Total(c.log, k) < gap) =>
        /\ pc[1] = "done"
        /\ c.ret = [errno |-> 0, n |-> 0,
                    data |-> [nil |-> FALSE, n |-> 0, b |-> 0]]
        /\ c.logged = <<>>
        /\ \A i \in 1..k :
              /\ c.log[i].op = "Read"
              /\ c.log[i].buf.n <= gap - Total(c.log, i - 1)
              /\ i < k => c.log[i].err = NilErr
        /\ offset = c.pre + Total(c.log, k)

\* from t = 0, Read(offset = Gap): the one discard read answers Gap - 1
\* bytes and end-of-stream
C23_Witness ==
    LET c == call[1] IN
    /\ pc[1] = "done" /\ c.op = "Read" /\ c.pre = 0 /\ c.off = Gap
    /\ c.len = MaxBuf
    /\ ~file.readerAt /\ ~file.seeker
    /\ c.log = <<BackendCall("Read", 0, Bytes(Gap, 0), Gap - 1, <<EOF>>)>>
    /\ c.ret.errno = 0 /\ c.ret.n = 0 /\ ~c.ret.data.nil
    /\ offset = Gap - 1

\* the backend file supports neither random access nor seek
SequentialOnly == ~file.readerAt /\ ~file.writerAt /\ ~file.seeker

\* C24: offset accounting on a backend supporting neither random access nor
\* seek: the tracked offset is 0 when the handle is made, changes only
\* inside a Read or Write call, and when such a call has returned, with
\* success or with a failure, it has grown by the total number of bytes the
\* backend reported for the reads (discarded and payload) or writes
\* (padding and payload) of that call; so after any sequence of calls it is
\* the total the backend reported through the handle.
C24_OffsetAccounting ==
    /\ [](LET c == call[1] IN
          (SequentialOnly /\ file.open /\ pc[1] = "done"
           /\ c.op \in {"Read", "Write"}) =>
              /\ \A i \in 1..Len(c.log) : c.log[i].op = c.op
              /\ offset = c.pre + Total(c.log, Len(c.log)))
    /\ [][/\ (~file.open /\ file'.open) => offset' = 0
          /\ (file.open /\ SequentialOnly) =>
                /\ (pc[1] \in {"RLock", "WLock"} /\ pc'[1] # pc[1]) =>
                      call'[1].pre = offset
                /\ InCall(1) => call'[1].pre = call[1].pre
                /\ offset' # offset => InCall(1) /\ IssuesCall(1)]_vars

\* a payload write of MaxBuf bytes that also failed has left the tracked
\* offset at MaxBuf; then a Read(offset = Gap) fails in its discard read
\* after all but one of the missing bytes
C24_Witness ==
    LET c == call[1] IN
    /\ SequentialOnly /\ pc[1] = "done" /\ c.op = "Read"
    /\ c.pre = MaxBuf /\ c.off = Gap
    /\ c.log = <<BackendCall("Read", 0, Bytes(Gap - MaxBuf, 0),
                             Gap - MaxBuf - 1, <<Generic>>)>>
    /\ c.ret.errno = EIO
    /\ offset = Gap - 1

\* C25: zero-padding terminates: a sequential-fallback Write that has
\* entered the padding loop (a forward gap off - t > 0) eventually returns,
\* whatever the backend answers to the padding writes: short writes, and
\* writes that report zero bytes written without a failure, included.
C25_PaddingTerminates ==
    (pc[1] = "WPad") ~> (pc[1] = "done")

----------------------------------------------------------------------------
(***************************************************************************)
(* Further properties of the attribute fill.                               *)
(***************************************************************************)

\* C26: attribute fill always yields a link count of at least 1: for every
\* source (Extended Metadata only, a Raw System Stat only, both, neither)
\* and every raw link count, 0 included, the output record's Nlink is >= 1.
C26_NlinkAtLeast1 ==
    upc = "done" => output.attr.Nlink >= 1

\* C27: attribute fill is a function of the source alone: statToAttr with
\* the same source and an output record of different prior contents (fresh,
\* or reused from an earlier query with nonzero uid, gid, inode, device id
\* and block count) produces the same output record.
C27_FillIgnoresPriorContents ==
    upc = "done" =>
        \A prior \in {ZeroAttr, UsedAttr} :
            statToAttr(input.fi, prior).attr = output.attr

----------------------------------------------------------------------------
(***************************************************************************)
(* Further properties of concurrent callers.                               *)
(***************************************************************************)

\* caller q is between the first and the last backend call of a Read or
\* Write
MidCall(q) == InCall(q) /\ Len(call[q].log) > 0

\* the step is a Release of caller p issuing its close
IssuesClose(p) ==
    /\ call'[p].op = "Release" /\ call'[p] # call[p]
    /\ Len(call'[p].log) = 1 /\ call'[p].log[1].op = "Close"

\* C28: no backend I/O after close: whatever the interleaving of the Read,
\* Write and Release calls on one file handle, no read, write,
\* random-access or seek call is issued on the handle's file once Release
\* has issued its close, and the close is not issued while a Read or Write
\* on the handle is between its first and its last backend call.
C28_NoIOAfterClose ==
    [][\A p \in Callers :
          /\ (closed /\ call'[p].op \in {"Read", "Write"}) =>
                call'[p].log = call[p].log
          /\ IssuesClose(p) => \A q \in Callers \ {p} : ~MidCall(q)]_vars

----------------------------------------------------------------------------
(***************************************************************************)
(* Further properties of the path node.                                    *)
(***************************************************************************)

\* C29: Setattr is not atomic: when a sub-change fails, the backend calls
\* of the request are exactly those of the requested sub-changes up to the
\* failing one, in order, all but the last successful (every earlier
\* requested sub-change has been applied), nothing follows the failed call
\* (no compensating call), and the output attribute record is not written.
C29_SetattrNotAtomic ==
    (input.op = "Setattr" /\ upc = "done") =>
        LET log == output.log
            E   == ExpectedCalls(input.in)
        IN  \A k \in 1..Len(log) :
             (log[k].op \in SubChangeOps /\ k <= Len(E) /\ log[k].err # NilErr) =>
                /\ k = Len(log)
                /\ OpsOf(log) = SubSeq(E, 1, k)
                /\ \A i \in 1..(k - 1) :
                      log[i].err = NilErr /\ log[i].path = input.n
                /\ output.errno # 0
                /\ output.out = NoOut

\* mode, uid and size requested: the mode and the owner are changed, then
\* truncate fails; the two changes stay
C29_Witness ==
    /\ upc = "done" /\ input.op = "Setattr"
    /\ input.in.valid = {"mode", "uid", "size"}
    /\ OpsOf(output.log) = <<"Chmod", "Lchown", "Truncate">>
    /\ output.log[1].err = NilErr /\ output.log[2].err = NilErr
    /\ output.log[3].err = <<ErrPermission>>
    /\ output.errno = EPERM /\ output.out = NoOut

----------------------------------------------------------------------------
(***************************************************************************)
(* Further properties of the tiers.                                        *)
(***************************************************************************)

\* C30: a seek failure is final, for Read and for Write: when the backend
\* file has the seek capability and the seek fails, with any failure, also
\* one that signals "unsupported operation", the seek is the last backend
\* call of the call, no sequential read or write is issued, the call
\* returns the translated failure with no bytes, and the tracked offset is
\* left unchanged.
C30_SeekFailureFinal ==
    LET c == call[1] IN
    c.op \in {"Read", "Write"} =>
        \A i \in 1..Len(c.log) :
            (c.log[i].op = "Seek" /\ c.log[i].err # NilErr) =>
                /\ file.seeker
                /\ i = Len(c.log)
                /\ c.log[i].arg = c.off
                /\ \A j \in 1..Len(c.log) : c.log[j].op \notin {"Read", "Write"}
                /\ pc[1] = "done"
                /\ c.ret = [errno |-> ErrnoReference(c.log[i].err), n |-> 0,
                            data |-> NoResult]
                /\ c.ret.errno # 0
                /\ c.logged = <<"Seek failed">>
                /\ offset = c.pre

\* a Read on a file that can seek but not read at an offset: the seek
\* answers "unsupported operation" and the Read fails with ENOSYS
C30_Witness ==
    LET c == call[1] IN
    /\ pc[1] = "done" /\ c.op = "Read" /\ c.off = Gap
    /\ ~file.readerAt /\ file.seeker
    /\ c.log = <<BackendCall("Seek", Gap, Bytes(0, 0), 0, <<ErrUnsupported>>)>>
    /\ c.ret = [errno |-> ENOSYS, n |-> 0, data |-> NoResult]
    /\ offset = c.pre

====
